---------------------------- MODULE Spec2Model ----------------------------
(***************************************************************************)
(* A model of the ant-foraging simulation of src/src/main.ts: the          *)
(* pheromone grid, nest/food/obstacle placement, the agent update and the  *)
(* frame loop with its UI handlers.                                        *)
(*                                                                         *)
(* Number representation.  The program computes with IEEE doubles (and     *)
(* Float32 cells); the model computes with integers in fixed point:        *)
(*   - concentrations, rates, probabilities and multipliers are counted    *)
(*     in units of 1/ONE (ONE stands for 1.0);                             *)
(*   - positions are counted in units of 1/RES of a grid cell (a pixel),   *)
(*     so Math.floor(x) is x \div RES and a position can lie strictly      *)
(*     between two cells;                                                  *)
(*   - headings are counted in units of pi/4 (PI stands for Math.PI); they *)
(*     are not normalised, exactly as in the program;                      *)
(*   - the arena is WIDTH x HEIGHT cells, far smaller than the program's   *)
(*     600 x 600, and the lengths of the geometry are scaled with it.      *)
(* Math.random() is a nondeterministic choice.                             *)
(***************************************************************************)
EXTENDS Integers, Sequences, FiniteSets, TLC

VARIABLES
    params,            \* the SimParams record
    nests,             \* Seq of [x, y, r, surgeTimer]
    foodSources,       \* Seq of [x, y, r, surgeTimer]
    obstacles,         \* Seq of [x, y, w, h]
    homeGrid,          \* grid.homeGrid : 0..W*H-1 -> level
    foodGrid,          \* grid.foodGrid
    agents,            \* Seq of Agent records
    spawnAccumulator,  \* in units of 1/ONE
    pc,                \* where the frame loop stands: "idle" between frames
    cursor,            \* index of the next agent the update pass visits
    spatialMap,        \* the frame's bucket map: key -> Seq of agent indices
    call,              \* the last direct call of a PheromoneGrid method and its result
    trace,             \* what the last Agent.update did, step by step
    hist               \* bookkeeping: frames, handler calls, spawn budget

vars == <<params, nests, foodSources, obstacles, homeGrid, foodGrid, agents,
          spawnAccumulator, pc, cursor, spatialMap, call, trace, hist>>

---------------------------------------------------------------------------
(* Bounds of the model *)

WIDTH == 6
HEIGHT == 6
RES == 2
MaxOps == 3
MaxTicks == 3
MaxUi == 1
MaxAgents == 2

(* Program constants, in the model's units *)

ONE == 10000
SNAP == 10
STRENGTH_STEP == 50
TRAIL_MIN == 500
UTURN_MIN == 500
LOST_MIN == 100
REORIENT_CHANCE == 500
TRICKLE == 100
PI == 4
SURGE_TICKS == 600
GIVE_UP_TICKS == 900
MAX_ATTEMPTS == 100
(* lengths, in position units, scaled to the small arena *)
NEST_R == 1
FOOD_R == 2
MARGIN == 2
WALL == 2
BUCKET == 4
(* one radian in heading units, times ONE; the jitter amplitudes, in radians times ONE *)
RAD == 12732
WIGGLE_CALM == 2000
WIGGLE_EXCITED == 500

HOME == 0
FOOD == 1

Cells == WIDTH * HEIGHT
XMAX == WIDTH * RES
YMAX == HEIGHT * RES

Min(a, b) == IF a <= b THEN a ELSE b
Max(a, b) == IF a >= b THEN a ELSE b
Floor(x) == x \div RES
(* product of two fixed-point numbers, rounded to the nearest unit *)
Mul(a, b) == (a * b + ONE \div 2) \div ONE

---------------------------------------------------------------------------
(* PheromoneGrid *)

ZeroGrid == [i \in 0 .. Cells - 1 |-> 0]

cellIndex(x, y) == Floor(y) * WIDTH + Floor(x)

deposit_NoClamp(h, f, single, x, y, type, amount) ==
    LET idx == cellIndex(x, y)
    IN  IF idx >= 0 /\ idx < Cells
        THEN IF (IF single THEN HOME ELSE type) = HOME
             THEN [home |-> [h EXCEPT ![idx] = h[idx] + amount], food |-> f]
             ELSE [home |-> h, food |-> [f EXCEPT ![idx] = f[idx] + amount]]
        ELSE [home |-> h, food |-> f]

deposit_IgnoresMode(h, f, single, x, y, type, amount) ==
    LET idx == cellIndex(x, y)
    IN  IF idx >= 0 /\ idx < Cells
        THEN IF type = HOME
             THEN [home |-> [h EXCEPT ![idx] = Min(ONE, h[idx] + amount)], food |-> f]
             ELSE [home |-> h, food |-> [f EXCEPT ![idx] = Min(ONE, f[idx] + amount)]]
        ELSE [home |-> h, food |-> f]

(* deposit: the grids after the call *)
deposit(h, f, single, x, y, type, amount) ==
    LET idx == cellIndex(x, y)
    IN  IF idx >= 0 /\ idx < Cells
        THEN LET effectiveType == IF single THEN HOME ELSE type
             IN  IF effectiveType = HOME
                 THEN [home |-> [h EXCEPT ![idx] = Min(ONE, h[idx] + amount)], food |-> f]
                 ELSE [home |-> h, food |-> [f EXCEPT ![idx] = Min(ONE, f[idx] + amount)]]
        ELSE [home |-> h, food |-> f]

getLevel_OffByOne(h, f, single, x, y, type) ==
    IF x < 0 \/ x > XMAX \/ y < 0 \/ y > YMAX
    THEN -ONE
    ELSE LET idx == Min(Cells - 1, cellIndex(x, y))
         IN  IF (IF single THEN HOME ELSE type) = HOME THEN h[idx] ELSE f[idx]

(* getLevel: the value returned; -1 is -ONE *)
getLevel(h, f, single, x, y, type) ==
    IF x < 0 \/ x >= XMAX \/ y < 0 \/ y >= YMAX
    THEN -ONE
    ELSE LET idx == cellIndex(x, y)
             effectiveType == IF single THEN HOME ELSE type
         IN  IF effectiveType = HOME THEN h[idx] ELSE f[idx]

evaporateCell_NoSnap(v, rate) == Mul(v, rate)

evaporateCell(v, rate) ==
    LET m == Mul(v, rate) IN IF m < SNAP THEN 0 ELSE m

(* evaporate: the grids after the call *)
evaporate(h, f, rate) ==
    [home |-> [i \in 0 .. Cells - 1 |-> evaporateCell(h[i], rate)],
     food |-> [i \in 0 .. Cells - 1 |-> evaporateCell(f[i], rate)]]

---------------------------------------------------------------------------
(* Environment: obstacles, nests, food sources *)

Rect(x, y, w, h) == [x |-> x, y |-> y, w |-> w, h |-> h]
Site(x, y, r) == [x |-> x, y |-> y, r |-> r, surgeTimer |-> 0]

SeqRange(s) == {s[i] : i \in 1 .. Len(s)}

isOverlapping(obs, x, y, r) ==
    \E i \in 1 .. Len(obs) :
        /\ x + r > obs[i].x /\ x - r < obs[i].x + obs[i].w
        /\ y + r > obs[i].y /\ y - r < obs[i].y + obs[i].h

(* Math.random() * (WIDTH - 100) + 50 and the same for y: the points the model
   lets the draws hit, one in each third of the margin-free area *)
SiteCands ==
    {c \in {[x |-> XMAX \div 3, y |-> YMAX \div 3],
            [x |-> (2 * XMAX) \div 3 - 1, y |-> (2 * YMAX) \div 3 - 1]}
       : c.x >= MARGIN /\ c.x < XMAX - MARGIN /\ c.y >= MARGIN /\ c.y < YMAX - MARGIN}
Center == [x |-> XMAX \div 2, y |-> YMAX \div 2]

drawSite_StopsEarly(obs, r, centerFirst, attempts) ==
    LET cands(k) == IF centerFirst /\ k = 0 THEN {Center} ELSE SiteCands
        again(c, k) == isOverlapping(obs, c.x, c.y, r) /\ k + 1 < MAX_ATTEMPTS - 1
        centerHit == isOverlapping(obs, Center.x, Center.y, r)
        randomHit == \E c \in SiteCands : isOverlapping(obs, c.x, c.y, r)
        hit(k) == IF centerFirst /\ k = 0 THEN centerHit ELSE randomHit
        drawn(k) == \A j \in attempts .. k - 1 : hit(j) /\ j + 1 < MAX_ATTEMPTS - 1
    IN  UNION {{[x |-> c.x, y |-> c.y, attempts |-> k + 1] : c \in {d \in cands(k) : ~again(d, k)}}
               : k \in {j \in attempts .. MAX_ATTEMPTS - 1 : drawn(j)}}

(* The do-while of initNests / initFoods, entered with `attempts` draws made:
   the candidates it can end with, each with the number of draws it took.
   Draw number k + 1 is made when each of the draws before it hit an obstacle;
   it ends the loop unless it hits one too and k + 1 < 100. *)
drawSite(obs, r, centerFirst, attempts) ==
    LET cands(k) == IF centerFirst /\ k = 0 THEN {Center} ELSE SiteCands
        again(c, k) == isOverlapping(obs, c.x, c.y, r) /\ k + 1 < MAX_ATTEMPTS
        centerHit == isOverlapping(obs, Center.x, Center.y, r)
        randomHit == \E c \in SiteCands : isOverlapping(obs, c.x, c.y, r)
        hit(k) == IF centerFirst /\ k = 0 THEN centerHit ELSE randomHit
        drawn(k) == \A j \in attempts .. k - 1 : hit(j) /\ j + 1 < MAX_ATTEMPTS
    IN  UNION {{[x |-> c.x, y |-> c.y, attempts |-> k + 1] : c \in {d \in cands(k) : ~again(d, k)}}
               : k \in {j \in attempts .. MAX_ATTEMPTS - 1 : drawn(j)}}

(* the iterations of the for loop of initNests / initFoods that follow the
   sites in `placed`, the first site drawn from `first` and the others from
   `other` *)
RECURSIVE pushSites(_, _, _, _)
pushSites(placed, n, first, other) ==
    IF Len(placed) >= n THEN {placed}
    ELSE UNION {pushSites(Append(placed, d), n, first, other)
                : d \in IF Len(placed) = 0 THEN first ELSE other}

(* the for loop of initNests / initFoods: the lists of draws it can end with,
   one draw per site, each with the number of candidates it took *)
placeDraws(obs, r, centerFirst, n, placed) ==
    pushSites(placed, n, drawSite(obs, r, centerFirst, 0), drawSite(obs, r, FALSE, 0))

(* the sites pushed for a list of draws *)
sitesOf(draws, r) ==
    IF draws = <<>> THEN <<>>
    ELSE [i \in 1 .. Len(draws) |-> Site(draws[i].x, draws[i].y, r)]

placeSites(obs, r, centerFirst, n, placed) ==
    {sitesOf(draws, r) : draws \in placeDraws(obs, r, centerFirst, n, placed)}

(* initNests, initFoods: the lists they can produce *)
initNests(obs, nestCount) == placeSites(obs, NEST_R, TRUE, nestCount, <<>>)
initFoods(obs, foodCount) == placeSites(obs, FOOD_R, FALSE, foodCount, <<>>)

MAZE_CELL == XMAX \div 4
MazeCols == XMAX \div MAZE_CELL
MazeRows == YMAX \div MAZE_CELL
(* the pillars in the order of the two for loops: y outer, x inner *)
PillarCount == Cardinality({y \in 2 .. MazeRows - 2 : y % 2 = 0})
                 * Cardinality({x \in 2 .. MazeCols - 2 : x % 2 = 0})
PillarsPerRow == Cardinality({x \in 2 .. MazeCols - 2 : x % 2 = 0})
PillarAt(k) == [x |-> (2 + 2 * ((k - 1) % PillarsPerRow)) * MAZE_CELL,
                y |-> (2 + 2 * ((k - 1) \div PillarsPerRow)) * MAZE_CELL]
WallOf(p, dir) ==
    CASE dir = 0 -> Rect(p.x, p.y - MAZE_CELL, WALL, MAZE_CELL)
      [] dir = 1 -> Rect(p.x, p.y, WALL, MAZE_CELL)
      [] dir = 2 -> Rect(p.x - MAZE_CELL, p.y, MAZE_CELL, WALL)
      [] OTHER   -> Rect(p.x, p.y, MAZE_CELL, WALL)

RECURSIVE mazeWalls(_, _)
mazeWalls(dirs, k) ==
    IF k > PillarCount THEN <<>>
    ELSE <<Rect(PillarAt(k).x, PillarAt(k).y, WALL, WALL), WallOf(PillarAt(k), dirs[k])>>
         \o mazeWalls(dirs, k + 1)

(* initMaze: the obstacle lists it can produce *)
initMaze ==
    {<<Rect(0, 0, XMAX, WALL), Rect(0, YMAX - WALL, XMAX, WALL),
       Rect(0, 0, WALL, YMAX), Rect(XMAX - WALL, 0, WALL, YMAX)>> \o mazeWalls(dirs, 1)
     : dirs \in [1 .. PillarCount -> 0 .. 3]}

---------------------------------------------------------------------------
(* Trigonometry on the eight headings, and Math.random() *)

COS8 == <<10000, 7071, 0, -7071, -10000, -7071, 0, 7071>>
Cos(a) == COS8[(a % (2 * PI)) + 1]
Sin(a) == Cos(a - PI \div 2)
(* n / d rounded to the nearest integer, halves away from zero *)
Round(n, d) == IF n >= 0 THEN (2 * n + d) \div (2 * d) ELSE -((d - 2 * n) \div (2 * d))

(* the outcomes of Math.random() < p *)
Chance(p) == {b \in BOOLEAN : IF b THEN p > 0 ELSE p < ONE}
(* the outcomes of Math.random() - 0.5, in halves: -0.5, 0 and (nearly) 0.5 *)
Centered == {-1, 0, 1}
(* (Math.random() - 0.5) * rad radians, in heading units *)
Swing(c, rad) == Round(c * Round(rad * RAD, ONE), 2 * ONE)
(* the headings new Agent() can draw *)
SpawnAngles == {0, 1, PI + 1}

FORAGING == 0
RETURNING == 1

newAgent(x, y, angle) ==
    [x |-> x, y |-> y, angle |-> angle, state |-> FORAGING,
     pheromoneStrength |-> ONE, excitedLevel |-> 0, searchTime |-> 0, givingUp |-> FALSE]

(* What one Agent.update draws: a record of these fields; a draw the update
   does not reach is FALSE or 0. *)
drawsOf(decay, prop, sn, wig, bounce) ==
    [decay |-> decay, prop |-> prop, turn |-> sn.turn, uturn |-> sn.uturn,
     reorient |-> sn.reorient, swing |-> sn.swing, wiggle |-> wig, bounce |-> bounce]

---------------------------------------------------------------------------
(* Agent.update, step by step.  Each step maps the agent record to the next. *)

(* lines 256-261 *)
excitationDecay(a, p, rnd) ==
    IF a.excitedLevel > 0 /\ p.excitedDecayRate > 0 /\ rnd.decay
    THEN [a EXCEPT !.excitedLevel = 0] ELSE a
decayDrawn(a, p) == a.excitedLevel > 0 /\ p.excitedDecayRate > 0

(* lines 263-273: `nearby` is the bucket's list, `me` this agent's index *)
hasSource(ags, nearby, me) ==
    \E k \in 1 .. Len(nearby) : nearby[k] /= me /\ ags[nearby[k]].excitedLevel = 2
propDrawn(a, p, ags, nearby, me) ==
    p.propagationChance > 0 /\ a.excitedLevel = 0 /\ hasSource(ags, nearby, me)
excitationPropagation_ToSource(a, p, ags, nearby, me, rnd) ==
    IF propDrawn(a, p, ags, nearby, me) /\ rnd.prop
    THEN [a EXCEPT !.excitedLevel = 2] ELSE a

excitationPropagation(a, p, ags, nearby, me, rnd) ==
    IF propDrawn(a, p, ags, nearby, me) /\ rnd.prop
    THEN [a EXCEPT !.excitedLevel = 1] ELSE a

sensorPos(a, ang, p) ==
    [x |-> a.x + Round(Cos(ang) * p.sensorDist, ONE),
     y |-> a.y + Round(Sin(ang) * p.sensorDist, ONE)]

turnDecision_Mirrored(vLeft, vCenter, vRight) ==
    IF vCenter > vLeft /\ vCenter > vRight THEN "straight"
    ELSE IF vCenter < vLeft /\ vCenter < vRight THEN "random"
    ELSE IF vLeft > vRight THEN "right"
    ELSE IF vRight > vLeft THEN "left"
    ELSE "none"

(* the three-way comparison shared by sense and senseAnyPheromone:
   "straight", "random", "left", "right" or "none" *)
turnDecision(vLeft, vCenter, vRight) ==
    IF vCenter > vLeft /\ vCenter > vRight THEN "straight"
    ELSE IF vCenter < vLeft /\ vCenter < vRight THEN "random"
    ELSE IF vLeft > vRight THEN "left"
    ELSE IF vRight > vLeft THEN "right"
    ELSE "none"

applyTurn(a, decision, turn, rnd) ==
    CASE decision = "random" -> [a EXCEPT !.angle = a.angle + rnd.turn * turn]
      [] decision = "left"   -> [a EXCEPT !.angle = a.angle - turn]
      [] decision = "right"  -> [a EXCEPT !.angle = a.angle + turn]
      [] OTHER               -> a

(* lines 346-399: the readings of the normal path *)
senseReadings(a, p, h, f) ==
    LET targetType == IF a.state = FORAGING THEN FOOD ELSE HOME
        l == sensorPos(a, a.angle - p.sensorAngle, p)
        c == sensorPos(a, a.angle, p)
        r == sensorPos(a, a.angle + p.sensorAngle, p)
    IN  [left   |-> getLevel(h, f, p.singlePheromoneMode, l.x, l.y, targetType),
         center |-> getLevel(h, f, p.singlePheromoneMode, c.x, c.y, targetType),
         right  |-> getLevel(h, f, p.singlePheromoneMode, r.x, r.y, targetType)]

(* lines 401-441: the readings of the give-up path *)
sumReadings(a, p, h, f) ==
    LET l == sensorPos(a, a.angle - p.sensorAngle, p)
        c == sensorPos(a, a.angle, p)
        r == sensorPos(a, a.angle + p.sensorAngle, p)
        getSum(q) == getLevel(h, f, p.singlePheromoneMode, q.x, q.y, HOME)
                     + getLevel(h, f, p.singlePheromoneMode, q.x, q.y, FOOD)
    IN  [left |-> getSum(l), center |-> getSum(c), right |-> getSum(r)]

senseTurnRate(a, p) ==
    IF a.excitedLevel > 0 THEN Round(p.turnSpeed * p.excitedTurnSpeedMult, ONE)
    ELSE p.turnSpeed

(* whether the U-turn outcome `u` can be drawn: lines 383-398 *)
uTurnPossible(p, v, u) ==
    LET forwardPheromone == v.center + Max(v.left, v.right)
    IN  IF u THEN p.uTurnChance > 0
        ELSE p.uTurnChance < ONE /\ (forwardPheromone >= UTURN_MIN \/ p.uTurnChance * 10 < ONE)

(* lines 346-380: the agent after the turn decision of the normal path *)
senseTurn(a, p, h, f, rnd) ==
    LET v == senseReadings(a, p, h, f)
    IN  applyTurn(a, turnDecision(v.left, v.center, v.right), senseTurnRate(a, p), rnd)

senseNormal(a, p, h, f, rnd) ==
    LET turned == senseTurn(a, p, h, f, rnd)
    IN  IF p.uTurnChance > 0 /\ rnd.uturn
        THEN [turned EXCEPT !.angle = turned.angle + PI] ELSE turned

senseAnyPheromone(a, p, h, f, rnd) ==
    LET v == sumReadings(a, p, h, f)
        turned == applyTurn(a, turnDecision(v.left, v.center, v.right), p.turnSpeed * 2, rnd)
    IN  IF v.center + v.left + v.right < LOST_MIN /\ rnd.reorient
        THEN [turned EXCEPT !.angle = turned.angle + Round(rnd.swing * PI, 2)] ELSE turned

sense(a, p, h, f, rnd) ==
    IF a.givingUp THEN senseAnyPheromone(a, p, h, f, rnd) ELSE senseNormal(a, p, h, f, rnd)

(* the draws sense() can make, given what it reads *)
senseDrawSet(a, p, h, f) ==
    LET v == IF a.givingUp THEN sumReadings(a, p, h, f) ELSE senseReadings(a, p, h, f)
        turns == IF turnDecision(v.left, v.center, v.right) = "random" THEN Centered ELSE {0}
        uturns == IF ~a.givingUp /\ p.uTurnChance > 0
                  THEN {u \in BOOLEAN : uTurnPossible(p, v, u)} ELSE {FALSE}
        lost == a.givingUp /\ v.center + v.left + v.right < LOST_MIN
        reorients == IF lost
                     THEN {[re |-> r, sw |-> w] : r \in Chance(REORIENT_CHANCE), w \in Centered}
                          \ {[re |-> FALSE, sw |-> w] : w \in {-1, 1}}
                     ELSE {[re |-> FALSE, sw |-> 0]}
    IN  {[turn |-> t, uturn |-> u, reorient |-> r.re, swing |-> r.sw]
         : t \in turns, u \in uturns, r \in reorients}

(* lines 278-294 *)
giveUp_AtThreshold(a, p, h, f) ==
    IF p.enableGiveUp /\ a.state = FORAGING /\ a.excitedLevel = 0
    THEN LET currentHome == getLevel(h, f, p.singlePheromoneMode, a.x, a.y, HOME)
             currentFood == getLevel(h, f, p.singlePheromoneMode, a.x, a.y, FOOD)
         IN  IF currentHome > TRAIL_MIN \/ currentFood > TRAIL_MIN
             THEN [a EXCEPT !.searchTime = 0, !.givingUp = FALSE]
             ELSE [a EXCEPT !.searchTime = a.searchTime + 1,
                            !.givingUp = (a.searchTime + 1 >= GIVE_UP_TICKS) \/ a.givingUp]
    ELSE a

(* lines 278-294 *)
giveUp(a, p, h, f) ==
    IF p.enableGiveUp /\ a.state = FORAGING /\ a.excitedLevel = 0
    THEN LET currentHome == getLevel(h, f, p.singlePheromoneMode, a.x, a.y, HOME)
             currentFood == getLevel(h, f, p.singlePheromoneMode, a.x, a.y, FOOD)
         IN  IF currentHome > TRAIL_MIN \/ currentFood > TRAIL_MIN
             THEN [a EXCEPT !.searchTime = 0, !.givingUp = FALSE]
             ELSE [a EXCEPT !.searchTime = a.searchTime + 1,
                            !.givingUp = (a.searchTime + 1 > GIVE_UP_TICKS) \/ a.givingUp]
    ELSE a

(* lines 296-298: the jitter stays below half a heading unit *)
wiggle(a, rnd) ==
    LET amplitude == IF a.excitedLevel > 0 THEN WIGGLE_EXCITED ELSE WIGGLE_CALM
    IN  [a EXCEPT !.angle = a.angle + Swing(rnd.wiggle, amplitude)]

(* lines 300-311: the speed, in position units times ONE *)
speedOf(a, p, h, f) ==
    LET base == IF a.excitedLevel > 0 THEN p.moveSpeed * p.excitedSpeedMult
                ELSE p.moveSpeed * ONE
    IN  IF p.explorationResistance > 0
        THEN LET currentPheromone ==
                     Max(getLevel(h, f, p.singlePheromoneMode, a.x, a.y, HOME),
                         getLevel(h, f, p.singlePheromoneMode, a.x, a.y, FOOD))
                 factor == ONE - Mul(p.explorationResistance, ONE - currentPheromone)
             IN  Mul(base, Max(0, factor))
        ELSE base

(* lines 313-316 *)
move(a, speed) ==
    [a EXCEPT !.x = a.x + Round(Mul(Cos(a.angle), speed), ONE),
              !.y = a.y + Round(Mul(Sin(a.angle), speed), ONE)]

inObstacle(obs, x, y) ==
    \E i \in 1 .. Len(obs) :
        /\ x >= obs[i].x /\ x <= obs[i].x + obs[i].w
        /\ y >= obs[i].y /\ y <= obs[i].y + obs[i].h

(* lines 328-338 *)
handleObstacles(a, obs, prevX, prevY, rnd) ==
    IF inObstacle(obs, a.x, a.y)
    THEN [a EXCEPT !.x = prevX, !.y = prevY, !.angle = a.angle + PI + Swing(rnd.bounce, ONE)]
    ELSE a

handleBoundaries_NoBottom(a) ==
    LET a1 == IF a.x < 0 THEN [a EXCEPT !.x = 0, !.angle = PI - a.angle] ELSE a
        a2 == IF a1.x >= XMAX THEN [a1 EXCEPT !.x = XMAX - RES, !.angle = PI - a1.angle] ELSE a1
        a3 == IF a2.y < 0 THEN [a2 EXCEPT !.y = 0, !.angle = -a2.angle] ELSE a2
    IN  a3

handleBoundaries_Negates(a) ==
    LET a1 == IF a.x < 0 THEN [a EXCEPT !.x = 0, !.angle = PI - a.angle] ELSE a
        a2 == IF a1.x >= XMAX THEN [a1 EXCEPT !.x = XMAX - RES, !.angle = -a1.angle] ELSE a1
        a3 == IF a2.y < 0 THEN [a2 EXCEPT !.y = 0, !.angle = -a2.angle] ELSE a2
        a4 == IF a3.y >= YMAX THEN [a3 EXCEPT !.y = YMAX - RES, !.angle = -a3.angle] ELSE a3
    IN  a4

(* lines 443-448; grid.width - 1 is one whole cell below the extent *)
handleBoundaries(a) ==
    LET a1 == IF a.x < 0 THEN [a EXCEPT !.x = 0, !.angle = PI - a.angle] ELSE a
        a2 == IF a1.x >= XMAX THEN [a1 EXCEPT !.x = XMAX - RES, !.angle = PI - a1.angle] ELSE a1
        a3 == IF a2.y < 0 THEN [a2 EXCEPT !.y = 0, !.angle = -a2.angle] ELSE a2
        a4 == IF a3.y >= YMAX THEN [a3 EXCEPT !.y = YMAX - RES, !.angle = -a3.angle] ELSE a3
    IN  a4

dist2(a, site) == (a.x - site.x) * (a.x - site.x) + (a.y - site.y) * (a.y - site.y)

(* lines 451-461: the index of closestNest; the first of the nearest ones *)
closestNest(a, ns) ==
    CHOOSE i \in 1 .. Len(ns) :
        /\ \A j \in 1 .. Len(ns) : dist2(a, ns[i]) <= dist2(a, ns[j])
        /\ \A j \in 1 .. i - 1 : dist2(a, ns[j]) > dist2(a, ns[i])

(* lines 465-472 *)
onFoodAt(a, fs) == \E k \in 1 .. Len(fs) : dist2(a, fs[k]) < fs[k].r * fs[k].r

strengthStep_Twice(a, p) ==
    IF p.usePheromoneGradient THEN Max(0, a.pheromoneStrength - 2 * STRENGTH_STEP) ELSE ONE

(* lines 488-492 and 515-519 *)
strengthStep(a, p) ==
    IF p.usePheromoneGradient THEN Max(0, a.pheromoneStrength - STRENGTH_STEP) ELSE ONE

handleState_ArmsAlways(a, p, h, f, ns, fs) ==
    LET c == closestNest(a, ns)
        atNest == dist2(a, ns[c]) < ns[c].r * ns[c].r
        onFood == onFoodAt(a, fs)
    IN  IF a.state = FORAGING
        THEN [grids |-> deposit(h, f, p.singlePheromoneMode, a.x, a.y, HOME, a.pheromoneStrength),
              nests |-> ns,
              agent |-> IF onFood
                        THEN [a EXCEPT !.state = RETURNING, !.pheromoneStrength = ONE,
                                       !.angle = a.angle + PI, !.excitedLevel = 2]
                        ELSE [a EXCEPT !.pheromoneStrength =
                                           IF atNest THEN ONE ELSE strengthStep(a, p)]]
        ELSE [grids |-> deposit(h, f, p.singlePheromoneMode, a.x, a.y, FOOD, a.pheromoneStrength),
              nests |-> IF atNest THEN [ns EXCEPT ![c].surgeTimer = SURGE_TICKS] ELSE ns,
              agent |-> IF atNest
                        THEN [a EXCEPT !.state = FORAGING, !.pheromoneStrength = ONE,
                                       !.angle = a.angle + PI, !.excitedLevel = 0]
                        ELSE [a EXCEPT !.pheromoneStrength =
                                           IF onFood THEN ONE ELSE strengthStep(a, p)]]

handleState_KeepsHeading(a, p, h, f, ns, fs) ==
    LET c == closestNest(a, ns)
        atNest == dist2(a, ns[c]) < ns[c].r * ns[c].r
        onFood == onFoodAt(a, fs)
    IN  IF a.state = FORAGING
        THEN [grids |-> deposit(h, f, p.singlePheromoneMode, a.x, a.y, HOME, a.pheromoneStrength),
              nests |-> ns,
              agent |-> IF onFood
                        THEN [a EXCEPT !.state = RETURNING, !.pheromoneStrength = ONE,
                                       !.excitedLevel = 2]
                        ELSE [a EXCEPT !.pheromoneStrength =
                                           IF atNest THEN ONE ELSE strengthStep(a, p)]]
        ELSE [grids |-> deposit(h, f, p.singlePheromoneMode, a.x, a.y, FOOD, a.pheromoneStrength),
              nests |-> IF atNest /\ a.excitedLevel = 2
                        THEN [ns EXCEPT ![c].surgeTimer = SURGE_TICKS] ELSE ns,
              agent |-> IF atNest
                        THEN [a EXCEPT !.state = FORAGING, !.pheromoneStrength = ONE,
                                       !.angle = a.angle + PI, !.excitedLevel = 0]
                        ELSE [a EXCEPT !.pheromoneStrength =
                                           IF onFood THEN ONE ELSE strengthStep(a, p)]]

handleState_FullDeposit(a, p, h, f, ns, fs) ==
    LET c == closestNest(a, ns)
        atNest == dist2(a, ns[c]) < ns[c].r * ns[c].r
        onFood == onFoodAt(a, fs)
    IN  IF a.state = FORAGING
        THEN [grids |-> deposit(h, f, p.singlePheromoneMode, a.x, a.y, HOME, ONE),
              nests |-> ns,
              agent |-> LET a1 == IF onFood
                                  THEN [a EXCEPT !.state = RETURNING, !.pheromoneStrength = ONE,
                                                 !.angle = a.angle + PI, !.excitedLevel = 2]
                                  ELSE [a EXCEPT !.pheromoneStrength = strengthStep(a, p)]
                        IN  IF atNest THEN [a1 EXCEPT !.pheromoneStrength = ONE] ELSE a1]
        ELSE [grids |-> deposit(h, f, p.singlePheromoneMode, a.x, a.y, FOOD, ONE),
              nests |-> IF atNest /\ a.state = RETURNING /\ a.excitedLevel = 2
                        THEN [ns EXCEPT ![c].surgeTimer = SURGE_TICKS] ELSE ns,
              agent |-> LET a1 == IF atNest
                                  THEN [a EXCEPT !.state = FORAGING, !.pheromoneStrength = ONE,
                                                 !.angle = a.angle + PI, !.excitedLevel = 0]
                                  ELSE [a EXCEPT !.pheromoneStrength = strengthStep(a, p)]
                        IN  IF onFood THEN [a1 EXCEPT !.pheromoneStrength = ONE] ELSE a1]

handleState_KeepsExcitation(a, p, h, f, ns, fs) ==
    LET c == closestNest(a, ns)
        atNest == dist2(a, ns[c]) < ns[c].r * ns[c].r
        onFood == onFoodAt(a, fs)
    IN  IF a.state = FORAGING
        THEN [grids |-> deposit(h, f, p.singlePheromoneMode, a.x, a.y, HOME, a.pheromoneStrength),
              nests |-> ns,
              agent |-> LET a1 == IF onFood
                                  THEN [a EXCEPT !.state = RETURNING, !.pheromoneStrength = ONE,
                                                 !.angle = a.angle + PI, !.excitedLevel = 2]
                                  ELSE [a EXCEPT !.pheromoneStrength = strengthStep(a, p)]
                        IN  IF atNest THEN [a1 EXCEPT !.pheromoneStrength = ONE] ELSE a1]
        ELSE [grids |-> deposit(h, f, p.singlePheromoneMode, a.x, a.y, FOOD, a.pheromoneStrength),
              nests |-> IF atNest /\ a.state = RETURNING /\ a.excitedLevel = 2
                        THEN [ns EXCEPT ![c].surgeTimer = SURGE_TICKS] ELSE ns,
              agent |-> LET a1 == IF atNest
                                  THEN [a EXCEPT !.state = FORAGING, !.pheromoneStrength = ONE,
                                                 !.angle = a.angle + PI]
                                  ELSE [a EXCEPT !.pheromoneStrength = strengthStep(a, p)]
                        IN  IF onFood THEN [a1 EXCEPT !.pheromoneStrength = ONE] ELSE a1]

(* lines 450-527: the agent, the grids and the nests after the call *)
handleStateAndPheromones(a, p, h, f, ns, fs) ==
    LET c == closestNest(a, ns)
        atNest == dist2(a, ns[c]) < ns[c].r * ns[c].r
        onFood == onFoodAt(a, fs)
    IN  IF a.state = FORAGING
        THEN [grids |-> deposit(h, f, p.singlePheromoneMode, a.x, a.y, HOME, a.pheromoneStrength),
              nests |-> ns,
              agent |-> LET a1 == IF onFood
                                  THEN [a EXCEPT !.state = RETURNING, !.pheromoneStrength = ONE,
                                                 !.angle = a.angle + PI, !.excitedLevel = 2]
                                  ELSE [a EXCEPT !.pheromoneStrength = strengthStep(a, p)]
                        IN  IF atNest THEN [a1 EXCEPT !.pheromoneStrength = ONE] ELSE a1]
        ELSE [grids |-> deposit(h, f, p.singlePheromoneMode, a.x, a.y, FOOD, a.pheromoneStrength),
              nests |-> IF atNest /\ a.state = RETURNING /\ a.excitedLevel = 2
                        THEN [ns EXCEPT ![c].surgeTimer = SURGE_TICKS] ELSE ns,
              agent |-> LET a1 == IF atNest
                                  THEN [a EXCEPT !.state = FORAGING, !.pheromoneStrength = ONE,
                                                 !.angle = a.angle + PI, !.excitedLevel = 0]
                                  ELSE [a EXCEPT !.pheromoneStrength = strengthStep(a, p)]
                        IN  IF onFood THEN [a1 EXCEPT !.pheromoneStrength = ONE] ELSE a1]

(* lines 255-326: Agent.update of agent `me` with the draws `rnd`; every
   intermediate agent record is kept, for the properties that speak of one step *)
update(ags, me, nearby, p, h, f, ns, fs, obs, rnd) ==
    LET a0 == ags[me]
        a1 == excitationDecay(a0, p, rnd)
        a2 == excitationPropagation(a1, p, ags, nearby, me, rnd)
        a3 == sense(a2, p, h, f, rnd)
        a4 == giveUp(a3, p, h, f)
        a5 == wiggle(a4, rnd)
        a6 == move(a5, speedOf(a5, p, h, f))
        a7 == handleObstacles(a6, obs, a5.x, a5.y, rnd)
        a8 == handleBoundaries(a7)
        r  == handleStateAndPheromones(a8, p, h, f, ns, fs)
    IN  [agent |-> r.agent, grids |-> r.grids, nests |-> r.nests,
         before |-> a0, calmed |-> a1, excited |-> a2,
         turned |-> IF a2.givingUp THEN a2 ELSE senseTurn(a2, p, h, f, rnd),
         sensed |-> a3, moved |-> a6, collided |-> a7,
         bounded |-> a8]

(* the draws the update of agent `me` can make, in the order it makes them *)
updateDraws(ags, me, nearby, p, h, f, obs) ==
    LET a0 == ags[me]
        decays == IF decayDrawn(a0, p) THEN Chance(p.excitedDecayRate) ELSE {FALSE}
        afterDecay(d) == excitationDecay(a0, p, [decay |-> d])
        props(d) == IF propDrawn(afterDecay(d), p, ags, nearby, me)
                    THEN Chance(p.propagationChance) ELSE {FALSE}
        afterProp(d, pr) == excitationPropagation(afterDecay(d), p, ags, nearby, me, [prop |-> pr])
        moved(d, pr, sn, w) ==
            LET a5 == wiggle(giveUp(sense(afterProp(d, pr), p, h, f, sn), p, h, f), [wiggle |-> w])
            IN  move(a5, speedOf(a5, p, h, f))
        bounces(d, pr, sn, w) ==
            LET a6 == moved(d, pr, sn, w)
            IN  IF inObstacle(obs, a6.x, a6.y) THEN Centered ELSE {0}
        (* one draw for each jitter the heading can tell apart *)
        wiggles(a) == {CHOOSE w \in Centered : wiggle(a, [wiggle |-> w]) = wiggle(a, [wiggle |-> v])
                       : v \in Centered}
    IN  UNION {UNION {UNION {UNION {{drawsOf(d, pr, sn, w, b) : b \in bounces(d, pr, sn, w)}
                                    : w \in wiggles(afterProp(d, pr))}
                             : sn \in senseDrawSet(afterProp(d, pr), p, h, f)}
                      : pr \in props(d)}
               : d \in decays}

---------------------------------------------------------------------------
(* The frame loop (function loop, lines 673-837), in the order of its code:
   LoopSpawn (timers and spawn admission), LoopEvaporate (evaporation and the
   bucket map), LoopUpdate (one agent of the update pass), LoopDraw (drawing,
   statistics and requestAnimationFrame).  JavaScript runs a frame to its end
   before any UI handler: the handlers are enabled only when pc = "idle".
   hist.steps lists what the current (or last) frame has done so far, in the
   order of the code: the timers, the admission (n: the population after it),
   the evaporation, the bucket map, and the update of agent n; hist.indexed
   is the bucket (cx, cy) and hist.levels the excitedLevel of every agent
   when the map was built; hist.armed is, for every nest whose surge timer
   the run has seen set, the number of ticks started since, and -1 for the
   others; trace.nearby is the list handed to the agent updated last, and
   hist.slots what the admission loop of the frame drew, slot by slot. *)

tickTimers_Unguarded(ns) ==
    [i \in 1 .. Len(ns) |-> [ns[i] EXCEPT !.surgeTimer = ns[i].surgeTimer - 1]]

(* lines 674-677 *)
tickTimers(ns) ==
    [i \in 1 .. Len(ns) |->
        IF ns[i].surgeTimer > 0 THEN [ns[i] EXCEPT !.surgeTimer = ns[i].surgeTimer - 1]
        ELSE ns[i]]

sortieHeld_IgnoresSurge(p, nest) == p.enableSortieRegulation
sortieHeld_Always(p, nest) == TRUE

(* lines 690-697: the slot has to pass the draw of line 695 *)
sortieHeld(p, nest) == p.enableSortieRegulation /\ ~(nest.surgeTimer > 0)

(* lines 685-702: the ways the for loop can end, `k` rounds to go: the agent
   list, and for every slot that got past the ceiling test the nest drawn, its
   timer, and whether line 695 drew a number above 0.01 *)
RECURSIVE spawnLoop(_, _, _, _)
spawnLoop(ags, ns, p, k) ==
    IF k = 0 \/ Len(ags) >= p.agentCount THEN {[agents |-> ags, slots |-> <<>>]}
    ELSE UNION {
           LET (* Math.random() > 0.01: continue *)
               skips == IF sortieHeld(p, ns[n]) THEN Chance(ONE - TRICKLE) ELSE {FALSE}
               slot(skip) == [nest |-> n, surgeTimer |-> ns[n].surgeTimer, above |-> skip]
               rest(skip) ==
                   IF skip
                   THEN spawnLoop(ags, ns, p, k - 1)
                   ELSE UNION {spawnLoop(Append(ags, newAgent(ns[n].x, ns[n].y, ang)),
                                         ns, p, k - 1) : ang \in SpawnAngles}
           IN  UNION {{[agents |-> r.agents, slots |-> <<slot(skip)>> \o r.slots]
                          : r \in rest(skip)}
                      : skip \in skips}
           : n \in 1 .. Len(ns)}

(* History of one agent: the food sources it has stayed within since it last
   picked up food, whether it has picked up food since it last reached a nest,
   and how often it has picked up food *)
NoVisit == [foods |-> {}, carrying |-> FALSE, pickups |-> 0]
foodsAround(a, fs) == {k \in 1 .. Len(fs) : dist2(a, fs[k]) < fs[k].r * fs[k].r}
visitAfter(v, bounded, after, fs) ==
    LET fired == bounded.state = FORAGING /\ after.state = RETURNING
        arrived == bounded.state = RETURNING /\ after.state = FORAGING
    IN  [foods |-> IF fired THEN foodsAround(after, fs) ELSE v.foods \cap foodsAround(after, fs),
         carrying |-> fired \/ (v.carrying /\ ~arrived),
         pickups |-> v.pickups + (IF fired THEN 1 ELSE 0)]

spawnAccumulate_Lossy(acc, rate) ==
    [count |-> (acc + rate) \div ONE, rest |-> 0]

spawnAccumulate_KeepsWhole(acc, rate) ==
    [count |-> (acc + rate) \div ONE, rest |-> acc + rate]

(* lines 681-683 *)
spawnAccumulate(acc, rate) ==
    [count |-> (acc + rate) \div ONE, rest |-> (acc + rate) - ((acc + rate) \div ONE) * ONE]

LoopSpawn_AdmitsFirst ==
    /\ pc = "idle"
    /\ hist.frames < MaxTicks
    /\ nests' = tickTimers(nests)
    /\ \E r \in (IF Len(agents) < params.agentCount
                  THEN spawnLoop(agents, nests, params,
                                 spawnAccumulate(spawnAccumulator, params.spawnRate).count)
                  ELSE {[agents |-> agents, slots |-> <<>>]}) :
          /\ agents' = r.agents
          /\ hist' = [hist EXCEPT !.frames = hist.frames + 1,
                                  !.ticks = hist.ticks + 1,
                                  !.budget = hist.budget + params.spawnRate,
                                  !.spawned = hist.spawned + (Len(r.agents) - Len(agents)),
                                  !.regulated = hist.regulated \/ params.enableSortieRegulation,
                                  !.visits = [i \in 1 .. Len(r.agents) |->
                                                IF i <= Len(hist.visits) THEN hist.visits[i]
                                                ELSE NoVisit],
                                  !.cmd = "none",
                                  !.steps = <<[op |-> "timers", n |-> Len(agents)],
                                              [op |-> "admit", n |-> Len(r.agents)]>>,
                                  !.slots = r.slots,
                                  !.armed = [i \in 1 .. Len(hist.armed) |->
                                               IF hist.armed[i] >= 0 THEN hist.armed[i] + 1
                                               ELSE -1]]
    /\ spawnAccumulator' = IF Len(agents) < params.agentCount
                           THEN spawnAccumulate(spawnAccumulator, params.spawnRate).rest
                           ELSE spawnAccumulator
    /\ pc' = "evaporate"
    /\ UNCHANGED <<params, foodSources, obstacles, homeGrid, foodGrid, cursor,
                   spatialMap, call, trace>>

(* lines 674-703 *)
LoopSpawn ==
    /\ pc = "idle"
    /\ hist.frames < MaxTicks
    /\ nests' = tickTimers(nests)
    /\ \E r \in (IF Len(agents) < params.agentCount
                  THEN spawnLoop(agents, nests', params,
                                 spawnAccumulate(spawnAccumulator, params.spawnRate).count)
                  ELSE {[agents |-> agents, slots |-> <<>>]}) :
          /\ agents' = r.agents
          /\ hist' = [hist EXCEPT !.frames = hist.frames + 1,
                                  !.ticks = hist.ticks + 1,
                                  !.budget = hist.budget + params.spawnRate,
                                  !.spawned = hist.spawned + (Len(r.agents) - Len(agents)),
                                  !.regulated = hist.regulated \/ params.enableSortieRegulation,
                                  !.visits = [i \in 1 .. Len(r.agents) |->
                                                IF i <= Len(hist.visits) THEN hist.visits[i]
                                                ELSE NoVisit],
                                  !.cmd = "none",
                                  !.steps = <<[op |-> "timers", n |-> Len(agents)],
                                              [op |-> "admit", n |-> Len(r.agents)]>>,
                                  !.slots = r.slots,
                                  !.armed = [i \in 1 .. Len(hist.armed) |->
                                               IF hist.armed[i] >= 0 THEN hist.armed[i] + 1
                                               ELSE -1]]
    /\ spawnAccumulator' = IF Len(agents) < params.agentCount
                           THEN spawnAccumulate(spawnAccumulator, params.spawnRate).rest
                           ELSE spawnAccumulator
    /\ pc' = "evaporate"
    /\ UNCHANGED <<params, foodSources, obstacles, homeGrid, foodGrid, cursor,
                   spatialMap, call, trace>>

BucketCols == (XMAX + BUCKET - 1) \div BUCKET
bucketKey_ColumnOnly(a) == a.x \div BUCKET
bucketKey(a) == (a.y \div BUCKET) * BucketCols + (a.x \div BUCKET)
(* cx and cy of lines 716-717 *)
bucketOf(a) == <<a.x \div BUCKET, a.y \div BUCKET>>

(* lines 712-721: key -> the indices of the agents bucketed there, in list order *)
RECURSIVE bucketList(_, _, _)
bucketList(ags, key, i) ==
    IF i > Len(ags) THEN <<>>
    ELSE (IF bucketKey(ags[i]) = key THEN <<i>> ELSE <<>>) \o bucketList(ags, key, i + 1)
buildSpatialMap(ags) ==
    [key \in {bucketKey(ags[i]) : i \in 1 .. Len(ags)} |-> bucketList(ags, key, 1)]

LoopEvaporate ==
    /\ pc = "evaporate"
    /\ LET g == evaporate(homeGrid, foodGrid, params.evaporationRate)
       IN  homeGrid' = g.home /\ foodGrid' = g.food
    /\ spatialMap' = buildSpatialMap(agents)
    /\ cursor' = 1
    /\ pc' = "update"
    /\ hist' = [hist EXCEPT !.steps = hist.steps \o <<[op |-> "evaporate", n |-> Len(agents)],
                                                      [op |-> "index", n |-> Len(agents)]>>,
                            !.indexed = [i \in 1 .. Len(agents) |-> bucketOf(agents[i])],
                            !.levels = [i \in 1 .. Len(agents) |-> agents[i].excitedLevel]]
    /\ UNCHANGED <<params, nests, foodSources, obstacles, agents, spawnAccumulator,
                   call, trace>>

(* lines 723-729 *)
neighborsOf(map, a) ==
    IF bucketKey(a) \in DOMAIN map THEN map[bucketKey(a)] ELSE <<>>

LoopUpdate ==
    /\ pc = "update"
    /\ cursor <= Len(agents)
    /\ \E rnd \in updateDraws(agents, cursor, neighborsOf(spatialMap, agents[cursor]),
                                params, homeGrid, foodGrid, obstacles) :
         \E u \in {update(agents, cursor, neighborsOf(spatialMap, agents[cursor]), params,
                          homeGrid, foodGrid, nests, foodSources, obstacles, rnd)} :
             /\ agents' = [agents EXCEPT ![cursor] = u.agent]
             /\ homeGrid' = u.grids.home
             /\ foodGrid' = u.grids.food
             /\ nests' = u.nests
             /\ trace' = [me |-> cursor, before |-> u.before, calmed |-> u.calmed,
                          excited |-> u.excited, turned |-> u.turned,
                          sensed |-> u.sensed, moved |-> u.moved, collided |-> u.collided,
                          bounded |-> u.bounded, after |-> u.agent,
                          nestsBefore |-> nests, nestsAfter |-> u.nests,
                          visit |-> hist.visits[cursor],
                          nearby |-> neighborsOf(spatialMap, agents[cursor])]
             /\ hist' = [hist EXCEPT !.visits[cursor] =
                             visitAfter(hist.visits[cursor], u.bounded, u.agent, foodSources),
                                     !.steps = Append(hist.steps,
                                                      [op |-> "update", n |-> cursor]),
                                     !.armed = [i \in 1 .. Len(u.nests) |->
                                                  IF u.nests[i].surgeTimer = SURGE_TICKS THEN 0
                                                  ELSE IF i <= Len(hist.armed) THEN hist.armed[i]
                                                  ELSE -1]]
    /\ cursor' = cursor + 1
    /\ UNCHANGED <<params, foodSources, obstacles, spawnAccumulator, pc, spatialMap, call>>

LoopDraw_Early ==
    /\ pc = "update"
    /\ cursor > 1
    /\ pc' = "idle"
    /\ spatialMap' = <<>>
    /\ UNCHANGED <<params, nests, foodSources, obstacles, homeGrid, foodGrid, agents,
                   spawnAccumulator, cursor, call, trace, hist>>

LoopDraw ==
    /\ pc = "update"
    /\ cursor > Len(agents)
    /\ pc' = "idle"
    /\ spatialMap' = <<>>
    /\ hist' = [hist EXCEPT !.indexed = <<>>, !.levels = <<>>]
    /\ UNCHANGED <<params, nests, foodSources, obstacles, homeGrid, foodGrid, agents,
                   spawnAccumulator, cursor, call, trace>>

---------------------------------------------------------------------------
(* Start-up (lines 840-846) and the UI handlers (setupUI, lines 557-670) *)

DefaultParams ==
    [agentCount |-> MaxAgents, moveSpeed |-> (3 * RES) \div 2, evaporationRate |-> 9850,
     sensorAngle |-> PI \div 4, sensorDist |-> RES, turnSpeed |-> 1,
     nestCount |-> 1, foodCount |-> 2, singlePheromoneMode |-> TRUE,
     uTurnChance |-> 100, excitedSpeedMult |-> 2 * ONE, propagationChance |-> 1000,
     excitedDecayRate |-> 100, usePheromoneGradient |-> TRUE,
     explorationResistance |-> 0, excitedTurnSpeedMult |-> 3 * ONE,
     spawnRate |-> 5 * ONE, enableSortieRegulation |-> FALSE, enableGiveUp |-> FALSE]

NoHist == [frames |-> 0, ui |-> 0, ops |-> 0, ticks |-> 0, budget |-> 0, spawned |-> 0,
           regulated |-> FALSE, visits |-> <<>>, steps |-> <<>>, indexed |-> <<>>, levels |-> <<>>,
           cmd |-> "none", slots |-> <<>>, armed |-> <<>>]
NoCall == [op |-> "none"]
NoTrace == [me |-> 0]

initAgents_KeepsAccumulator ==
    /\ agents' = <<>>
    /\ spawnAccumulator' = spawnAccumulator

initAgents_KeepsAgents ==
    /\ agents' = agents
    /\ spawnAccumulator' = 0

(* initAgents (lines 550-554) *)
initAgents ==
    /\ agents' = <<>>
    /\ spawnAccumulator' = 0

gridReset ==
    /\ homeGrid' = ZeroGrid
    /\ foodGrid' = ZeroGrid

(* hist.cmd names the handler that ran last, until the next frame starts *)
handledAs(name, populationReset) ==
    hist' = IF populationReset
            THEN [hist EXCEPT !.ui = hist.ui + 1, !.ticks = 0, !.budget = 0,
                              !.spawned = 0, !.regulated = FALSE, !.visits = <<>>,
                              !.cmd = name, !.armed = <<>>]
            ELSE [hist EXCEPT !.ui = hist.ui + 1, !.cmd = name, !.armed = <<>>]
handled(populationReset) == handledAs("input", populationReset)

uiReady_MidTick == hist.ui < MaxUi

(* an event listener runs only when no frame is on the stack: loop() is
   synchronous and hands over with requestAnimationFrame (line 836) *)
uiReady == pc = "idle" /\ hist.ui < MaxUi

(* the values the model lets the inputs take *)
AgentCounts == {1, MaxAgents}
SiteCounts == {1, 2}
InputValues ==
    [spawnRate |-> {ONE \div 2, ONE + ONE \div 2},
     moveSpeed |-> {3 * RES},
     evaporationRate |-> {ONE \div 2},
     sensorAngle |-> {PI \div 2},
     sensorDist |-> {2 * RES},
     uTurnChance |-> {0},
     excitedSpeedMult |-> {ONE},
     propagationChance |-> {0},
     excitedDecayRate |-> {0},
     explorationResistance |-> {ONE \div 2},
     excitedTurnSpeedMult |-> {ONE}]

(* bind(id, 'agentCount'): lines 561-572 *)
BindAgentCount ==
    /\ uiReady
    /\ \E v \in AgentCounts : params' = [params EXCEPT !.agentCount = v]
    /\ initAgents
    /\ gridReset
    /\ handled(TRUE)
    /\ UNCHANGED <<nests, foodSources, obstacles, pc, cursor, spatialMap, call, trace>>

(* bind of a plain numeric input (lines 576-595); for sensorAngle the second
   listener's value (lines 583-587) is what stays *)
BindInput ==
    /\ uiReady
    /\ \E key \in DOMAIN InputValues : \E v \in InputValues[key] :
         params' = [params EXCEPT ![key] = v]
    /\ handled(FALSE)
    /\ UNCHANGED <<nests, foodSources, obstacles, homeGrid, foodGrid, agents,
                   spawnAccumulator, pc, cursor, spatialMap, call, trace>>

(* lines 597-604 *)
BindNestCount ==
    /\ uiReady
    /\ \E v \in SiteCounts :
         /\ params' = [params EXCEPT !.nestCount = v]
         /\ nests' \in initNests(obstacles, v)
    /\ initAgents
    /\ gridReset
    /\ handled(TRUE)
    /\ UNCHANGED <<foodSources, obstacles, pc, cursor, spatialMap, call, trace>>

(* lines 606-614 *)
BindFoodCount ==
    /\ uiReady
    /\ \E v \in SiteCounts :
         /\ params' = [params EXCEPT !.foodCount = v]
         /\ foodSources' \in initFoods(obstacles, v)
    /\ gridReset
    /\ initAgents
    /\ handled(TRUE)
    /\ UNCHANGED <<nests, obstacles, pc, cursor, spatialMap, call, trace>>

(* lines 616-623 *)
ChangeSinglePheromoneMode ==
    /\ uiReady
    /\ params' = [params EXCEPT !.singlePheromoneMode = ~params.singlePheromoneMode]
    /\ gridReset
    /\ initAgents
    /\ handled(TRUE)
    /\ UNCHANGED <<nests, foodSources, obstacles, pc, cursor, spatialMap, call, trace>>

ChangeUsePheromoneGradient_KeepsAgents ==
    /\ uiReady
    /\ params' = [params EXCEPT !.usePheromoneGradient = ~params.usePheromoneGradient]
    /\ gridReset
    /\ handled(FALSE)
    /\ UNCHANGED <<nests, foodSources, obstacles, agents, spawnAccumulator,
                   pc, cursor, spatialMap, call, trace>>

(* lines 625-632 *)
ChangeUsePheromoneGradient ==
    /\ uiReady
    /\ params' = [params EXCEPT !.usePheromoneGradient = ~params.usePheromoneGradient]
    /\ gridReset
    /\ initAgents
    /\ handled(TRUE)
    /\ UNCHANGED <<nests, foodSources, obstacles, pc, cursor, spatialMap, call, trace>>

(* lines 634-639 *)
ChangeSortieRegulation ==
    /\ uiReady
    /\ params' = [params EXCEPT !.enableSortieRegulation = ~params.enableSortieRegulation]
    /\ handled(FALSE)
    /\ UNCHANGED <<nests, foodSources, obstacles, homeGrid, foodGrid, agents,
                   spawnAccumulator, pc, cursor, spatialMap, call, trace>>

(* lines 641-646 *)
ChangeGiveUp ==
    /\ uiReady
    /\ params' = [params EXCEPT !.enableGiveUp = ~params.enableGiveUp]
    /\ handled(FALSE)
    /\ UNCHANGED <<nests, foodSources, obstacles, homeGrid, foodGrid, agents,
                   spawnAccumulator, pc, cursor, spatialMap, call, trace>>

(* the tail the three buttons share: grid.reset(); initNests(); initFoods(); initAgents() *)
replace(name, obs) ==
    /\ obstacles' = obs
    /\ gridReset
    /\ nests' \in initNests(obs, params.nestCount)
    /\ foodSources' \in initFoods(obs, params.foodCount)
    /\ initAgents
    /\ handledAs(name, TRUE)
    /\ UNCHANGED <<params, pc, cursor, spatialMap, call, trace>>

(* lines 648-654 *)
ClickMaze == uiReady /\ \E obs \in initMaze : replace("maze", obs)
(* lines 656-662 *)
ClickClearMaze == uiReady /\ replace("clear", <<>>)
(* lines 664-669 *)
ClickReset == uiReady /\ replace("reset", obstacles)

---------------------------------------------------------------------------
(* The PheromoneGrid object on its own: its four methods called directly, in
   any order, on points in and around the canvas.  `call` records the last
   call and what it returned; for evaporate also how many calls with the same
   rate have followed one another (run) and the grids before the first of
   them (base). *)

ProbePoints ==
    {[x |-> px, y |-> py] : px \in {-1, RES + 1, XMAX}, py \in {-1, RES, YMAX}}
ProbeAmounts == {0, (3 * ONE) \div 5, ONE + ONE \div 5}
ProbeRates == {ONE \div 1000, ONE \div 2, ONE}
outOfBounds(x, y) == x < 0 \/ x >= XMAX \/ y < 0 \/ y >= YMAX

gridCall(record) ==
    /\ pc = "idle"
    /\ hist.ops < MaxOps
    /\ call' = record
    /\ hist' = [hist EXCEPT !.ops = hist.ops + 1]
    /\ UNCHANGED <<params, nests, foodSources, obstacles, agents, spawnAccumulator,
                   pc, cursor, spatialMap, trace>>

CallDeposit ==
    \E pt \in ProbePoints, type \in {HOME, FOOD}, amount \in ProbeAmounts :
        LET g == deposit(homeGrid, foodGrid, params.singlePheromoneMode,
                         pt.x, pt.y, type, amount)
        IN  /\ homeGrid' = g.home
            /\ foodGrid' = g.food
            /\ gridCall([op |-> "deposit", x |-> pt.x, y |-> pt.y, type |-> type,
                         amount |-> amount, result |-> 0])

CallGetLevel ==
    \E pt \in ProbePoints, type \in {HOME, FOOD} :
        /\ UNCHANGED <<homeGrid, foodGrid>>
        /\ gridCall([op |-> "getLevel", x |-> pt.x, y |-> pt.y, type |-> type,
                     amount |-> 0,
                     result |-> getLevel(homeGrid, foodGrid, params.singlePheromoneMode,
                                         pt.x, pt.y, type)])

CallEvaporate ==
    \E rate \in ProbeRates :
        LET g == evaporate(homeGrid, foodGrid, rate)
            again == call.op = "evaporate" /\ call.amount = rate
        IN  /\ homeGrid' = g.home
            /\ foodGrid' = g.food
            /\ gridCall([op |-> "evaporate", x |-> 0, y |-> 0, type |-> HOME,
                         amount |-> rate, result |-> 0,
                         run |-> IF again THEN call.run + 1 ELSE 1,
                         base |-> IF again THEN call.base
                                  ELSE [home |-> homeGrid, food |-> foodGrid]])

CallReset ==
    /\ gridReset
    /\ gridCall([op |-> "reset", x |-> 0, y |-> 0, type |-> HOME, amount |-> 0,
                 result |-> 0])

(* the state once the script has run: setupUI(); initNests(); initFoods(); initAgents() *)
started(p, obs) ==
    /\ params = p
    /\ obstacles = obs
    /\ nests \in initNests(obs, p.nestCount)
    /\ foodSources \in initFoods(obs, p.foodCount)
    /\ homeGrid = ZeroGrid /\ foodGrid = ZeroGrid
    /\ agents = <<>>
    /\ spawnAccumulator = 0
    /\ pc = "idle" /\ cursor = 1 /\ spatialMap = <<>>
    /\ call = NoCall /\ trace = NoTrace /\ hist = NoHist

Init == started(DefaultParams, <<>>)

Frame == LoopSpawn \/ LoopEvaporate \/ LoopUpdate \/ LoopDraw
Handler ==
    \/ BindAgentCount \/ BindInput \/ BindNestCount \/ BindFoodCount
    \/ ChangeSinglePheromoneMode \/ ChangeUsePheromoneGradient
    \/ ChangeSortieRegulation \/ ChangeGiveUp
    \/ ClickMaze \/ ClickClearMaze \/ ClickReset

Next == Frame \/ Handler

Spec == Init /\ [][Next]_vars

(* The population at work: the program started with the spawn rate and the
   ceiling set, and agents that stay where they are spawned. *)
InitPop ==
    \E count \in AgentCounts, rate \in InputValues.spawnRate :
        started([DefaultParams EXCEPT !.agentCount = count, !.spawnRate = rate,
                                      !.moveSpeed = 0, !.uTurnChance = 0,
                                      !.foodCount = 1], <<>>)
SpecPop == InitPop /\ [][Next]_vars

(* One agent on its way: the program started with one or two nests, one food
   source, with or without a maze, and left to run. *)
InitMove ==
    \E count \in SiteCounts, obs \in {<<>>} \cup initMaze :
        started([DefaultParams EXCEPT !.agentCount = 1, !.spawnRate = ONE,
                                      !.nestCount = count, !.foodCount = 1], obs)
SpecMove == InitMove /\ [][Frame]_vars

(* A colony of two nests and one food source, with sortie regulation on or
   off, one spawn slot a tick, and the excitation inputs at 0 *)
InitSortie ==
    \E regulated \in BOOLEAN :
        started([DefaultParams EXCEPT !.enableSortieRegulation = regulated,
                                      !.agentCount = IF regulated THEN MaxAgents
                                                     ELSE MaxAgents + 1,
                                      !.spawnRate = ONE, !.nestCount = 2, !.foodCount = 1,
                                      !.uTurnChance = 0, !.propagationChance = 0,
                                      !.excitedDecayRate = 0], <<>>)
SpecSortie == InitSortie /\ [][Frame]_vars

(* A colony that has been running for long without evaporation: its one agent
   left the nest eastwards, laying the trail that is still there, has since
   spent its trail strength and has been off every trail for about
   GIVE_UP_TICKS updates, with or without having found food in the end.  The
   give-up input is on or off (line 644 switches it without a reset). *)
LostTrail ==
    [i \in 0 .. Cells - 1 |->
        IF i \div WIDTH = Floor(Center.y) /\ (i % WIDTH) >= Floor(Center.x)
        THEN ONE - STRENGTH_STEP * ((i % WIDTH) - Floor(Center.x))
        ELSE 0]
LostAgents ==
    {[newAgent(pos[1], pos[2], ang) EXCEPT !.pheromoneStrength = 0, !.state = st,
                                           !.excitedLevel = IF st = RETURNING THEN 2 ELSE 0,
                                           !.searchTime = n,
                                           !.givingUp = n > GIVE_UP_TICKS]
       : pos \in {<<RES, RES>>, <<XMAX - 2 * RES, YMAX - 2 * RES>>},
         ang \in {1, 2 * PI - 1},
         st \in {FORAGING, RETURNING},
         n \in {GIVE_UP_TICKS - 1, GIVE_UP_TICKS, GIVE_UP_TICKS + 1}}
InitLost ==
    \E on \in BOOLEAN, a \in LostAgents :
        /\ params = [DefaultParams EXCEPT !.enableGiveUp = on, !.agentCount = 1,
                                          !.evaporationRate = ONE, !.spawnRate = ONE,
                                          !.foodCount = 1]
        /\ obstacles = <<>>
        /\ nests \in initNests(<<>>, 1)
        /\ foodSources \in initFoods(<<>>, 1)
        /\ homeGrid = LostTrail /\ foodGrid = ZeroGrid
        /\ agents = <<a>>
        /\ spawnAccumulator = 0
        /\ pc = "idle" /\ cursor = 1 /\ spatialMap = <<>>
        /\ call = NoCall /\ trace = NoTrace
        /\ hist = [NoHist EXCEPT !.spawned = 1, !.budget = ONE, !.ticks = 1,
                                 !.visits = <<NoVisit>>]
SpecLost == InitLost /\ [][Frame]_vars

(* Two agents that leave their nests together or one tick apart, with one
   food source about, in either pheromone mode, with the excitation inputs as
   the program sets them *)
InitSwarm ==
    \E rate \in {ONE, 2 * ONE}, single \in BOOLEAN, count \in SiteCounts :
        started([DefaultParams EXCEPT !.spawnRate = rate, !.foodCount = 1,
                                      !.nestCount = count,
                                      !.singlePheromoneMode = single,
                                      !.uTurnChance = 0], <<>>)
SpecSwarm == InitSwarm /\ [][Frame]_vars

(* One agent on its way while the gradient checkbox is clicked between two
   frames *)
InitTrail ==
    \E count \in SiteCounts :
        started([DefaultParams EXCEPT !.agentCount = 1, !.spawnRate = ONE,
                                      !.nestCount = count, !.foodCount = 1], <<>>)
NextTrail == Frame \/ ChangeUsePheromoneGradient
SpecTrail == InitTrail /\ [][NextTrail]_vars

(* A regulated colony of one or two nests whose population was reset while
   the surge timer of the first nest was running, `left` ticks before its
   end: the timer was set 600 - left ticks ago. *)
SurgeLeft == {1, 2, 3, SURGE_TICKS \div 2}
InitSurge ==
    \E count \in SiteCounts, left \in SurgeLeft :
        \E placed \in initNests(<<>>, count) :
            LET p == [DefaultParams EXCEPT !.enableSortieRegulation = TRUE,
                                           !.agentCount = MaxAgents, !.spawnRate = ONE,
                                           !.nestCount = count, !.foodCount = 1,
                                           !.uTurnChance = 0, !.propagationChance = 0,
                                           !.excitedDecayRate = 0]
            IN  /\ params = p
                /\ obstacles = <<>>
                /\ nests = [placed EXCEPT ![1].surgeTimer = left]
                /\ foodSources \in initFoods(<<>>, p.foodCount)
                /\ homeGrid = ZeroGrid /\ foodGrid = ZeroGrid
                /\ agents = <<>>
                /\ spawnAccumulator = 0
                /\ pc = "idle" /\ cursor = 1 /\ spatialMap = <<>>
                /\ call = NoCall /\ trace = NoTrace
                /\ hist = [NoHist EXCEPT !.regulated = TRUE,
                                         !.armed = [i \in 1 .. count |->
                                                      IF i = 1 THEN SURGE_TICKS - left ELSE -1]]
SpecSurge == InitSurge /\ [][Frame]_vars

(* The population growing with nothing else going on: one or two nests,
   sortie regulation off, a spawn rate and a ceiling that the rate reaches
   within the ticks of a run, agents that stay where they are spawned.  Every
   frame ends with requestAnimationFrame(loop) (line 836), so a frame that
   can start does start, and loop() runs to its end once started: every step
   of it that is due is taken.  UpdateDue is the step of LoopUpdate on pc and
   cursor: an update is never refused, so the two are enabled together. *)
UpdateDue == pc = "update" /\ cursor <= Len(agents) /\ cursor' = cursor + 1 /\ pc' = pc
GrowRates == {ONE \div 2, ONE, 2 * ONE}
InitGrow ==
    \E count \in AgentCounts, rate \in GrowRates, nestCount \in SiteCounts :
        /\ count * ONE <= rate * MaxTicks
        /\ started([DefaultParams EXCEPT !.agentCount = count, !.spawnRate = rate,
                                         !.nestCount = nestCount, !.foodCount = 1,
                                         !.moveSpeed = 0, !.uTurnChance = 0], <<>>)
SpecGrow ==
    /\ InitGrow /\ [][Frame]_vars
    /\ WF_vars(LoopSpawn) /\ WF_vars(LoopEvaporate) /\ WF_vars(LoopDraw)
    /\ WF_<<pc, cursor>>(UpdateDue)

(* The two placement functions on their own: called directly, in any order,
   for one or two sites, with or without a maze in place.  `call` records the
   function, the number of sites asked for and the draws it ended with.  Of
   the runs of Math.random() the calls follow those in which every site is
   settled by the first, second, 99th or 100th candidate, or later. *)
SkippedAttempts == 3 .. MAX_ATTEMPTS - 2
followed(draws) == {d \in draws : d.attempts \notin SkippedAttempts}
followedDraws(obs, r, centerFirst, n) ==
    pushSites(<<>>, n, followed(drawSite(obs, r, centerFirst, 0)),
              followed(drawSite(obs, r, FALSE, 0)))
placeCall(record) ==
    /\ pc = "idle"
    /\ hist.ops < MaxOps
    /\ call' = record
    /\ hist' = [hist EXCEPT !.ops = hist.ops + 1]
    /\ UNCHANGED <<obstacles, homeGrid, foodGrid, agents, spawnAccumulator,
                   pc, cursor, spatialMap, trace>>

CallInitNests ==
    \E n \in SiteCounts :
        \E draws \in followedDraws(obstacles, NEST_R, TRUE, n) :
            /\ params' = [params EXCEPT !.nestCount = n]
            /\ nests' = sitesOf(draws, NEST_R)
            /\ placeCall([op |-> "initNests", amount |-> n, draws |-> draws])
            /\ UNCHANGED foodSources

CallInitFoods ==
    \E n \in SiteCounts :
        \E draws \in followedDraws(obstacles, FOOD_R, FALSE, n) :
            /\ params' = [params EXCEPT !.foodCount = n]
            /\ foodSources' = sitesOf(draws, FOOD_R)
            /\ placeCall([op |-> "initFoods", amount |-> n, draws |-> draws])
            /\ UNCHANGED nests

InitPlace ==
    \E obs \in {<<>>} \cup initMaze, nestCount \in SiteCounts, foodCount \in SiteCounts :
        started([DefaultParams EXCEPT !.nestCount = nestCount, !.foodCount = foodCount], obs)
NextPlace == CallInitNests \/ CallInitFoods
SpecPlace == InitPlace /\ [][NextPlace]_vars

(* a grid of the canvas size, in either mode, with nothing else going on *)
InitGrid ==
    \E single \in BOOLEAN :
        started([DefaultParams EXCEPT !.singlePheromoneMode = single, !.foodCount = 0], <<>>)
NextGrid == CallDeposit \/ CallGetLevel \/ CallEvaporate \/ CallReset
SpecGrid == InitGrid /\ [][NextGrid]_vars

---------------------------------------------------------------------------
(* C1: whatever deposits (amount >= 0), evaporations (rate in (0, 1]) and
   resets are made, every cell of both grids stays within [0, 1]. *)
CellsInRange ==
    \A i \in 0 .. Cells - 1 :
        /\ homeGrid[i] >= 0 /\ homeGrid[i] <= ONE
        /\ foodGrid[i] >= 0 /\ foodGrid[i] <= ONE
(* a cell brought to the ceiling by deposits that add up to more than 1 *)
CellSaturated ==
    /\ call.op = "deposit"
    /\ \E i \in 0 .. Cells - 1 : homeGrid[i] = ONE \/ foodGrid[i] = ONE

(* C3 as stated: at every tick boundary the number of agents spawned since
   the last population reset is the floor of the spawn rates summed over the
   ticks since then. *)
SpawnedIsFloorOfBudget ==
    pc = "idle" => hist.spawned = hist.budget \div ONE
(* C3, amended: while sortie regulation has been off since the last population
   reset, that number is the floor of the summed rates, but never more than
   the ceiling agentCount, at which admission stops and the budget is dropped. *)
SpawnedIsBudgetUpToCeiling ==
    (pc = "idle" /\ ~hist.regulated)
        => hist.spawned = Min(params.agentCount, hist.budget \div ONE)
(* a fractional remainder has been carried over a tick and then spent *)
RemainderSpent ==
    /\ pc = "idle" /\ ~hist.regulated /\ hist.ticks >= 2
    /\ hist.budget % ONE # 0 /\ hist.spawned >= 1
    /\ hist.spawned < params.agentCount /\ hist.spawned = hist.budget \div ONE

(* C4: at every tick boundary, and after every configuration change or reset
   command, there are at most params.agentCount agents. *)
PopulationWithinCeiling ==
    pc = "idle" => Len(agents) <= params.agentCount
(* the spawn loop has stopped at the ceiling with budget left *)
CeilingReached ==
    /\ pc = "idle" /\ Len(agents) = params.agentCount
    /\ hist.budget \div ONE > params.agentCount

(* The agent the last update was about: as handleBoundaries received it, as
   handleStateAndPheromones received it, and as the update left it *)
updated == trace.me # 0
strictlyInside(a, rect) ==
    /\ a.x > rect.x /\ a.x < rect.x + rect.w
    /\ a.y > rect.y /\ a.y < rect.y + rect.h
atNest(a, ns) ==
    dist2(a, ns[closestNest(a, ns)]) < ns[closestNest(a, ns)].r * ns[closestNest(a, ns)].r

(* C2 as stated: after any tick no agent is strictly inside an obstacle. *)
NoAgentInsideObstacle ==
    pc = "idle" =>
        \A i \in 1 .. Len(agents), k \in 1 .. Len(obstacles) :
            ~strictlyInside(agents[i], obstacles[k])

(* C5 as stated: after every update 0 <= x <= W - 1 and 0 <= y <= H - 1. *)
PositionUpToLastPixel ==
    updated => /\ trace.after.x >= 0 /\ trace.after.x <= XMAX - RES
               /\ trace.after.y >= 0 /\ trace.after.y <= YMAX - RES
(* C5, amended: after every update 0 <= x < W and 0 <= y < H; the clamp puts an
   agent that left the arena at W - 1 or H - 1, and leaves alone one that
   stopped anywhere below the extent. *)
PositionWithinArena ==
    updated => /\ trace.after.x >= 0 /\ trace.after.x < XMAX
               /\ trace.after.y >= 0 /\ trace.after.y < YMAX
(* an agent has stopped between W - 1 and W *)
StoppedPastLastPixel ==
    updated /\ trace.after.x > XMAX - RES /\ trace.collided.x = trace.after.x

(* C6: boundary handling turns the heading a to PI - a when the tentative
   position is past a vertical edge, to -a when it is past a horizontal edge,
   to -(PI - a) when it is past both, and leaves it alone otherwise. *)
ReflectionLaws ==
    updated =>
        LET c == trace.collided
            pastVertical == c.x < 0 \/ c.x >= XMAX
            pastHorizontal == c.y < 0 \/ c.y >= YMAX
        IN  trace.bounded.angle =
                IF pastVertical /\ pastHorizontal THEN -(PI - c.angle)
                ELSE IF pastVertical THEN PI - c.angle
                ELSE IF pastHorizontal THEN -c.angle
                ELSE c.angle
(* an agent has left the arena through a corner *)
CornerCrossed ==
    /\ updated
    /\ trace.collided.x < 0 \/ trace.collided.x >= XMAX
    /\ trace.collided.y < 0 \/ trace.collided.y >= YMAX

(* What C7 says of the update itself: a FORAGING agent that ends its move
   inside a food source becomes RETURNING with full trail strength, its heading
   turned by PI, and excited at SOURCE level. *)
pickedUp ==
    updated /\ trace.bounded.state = FORAGING /\ trace.after.state = RETURNING
PickUpEffect ==
    (updated /\ trace.bounded.state = FORAGING /\ onFoodAt(trace.bounded, foodSources))
        => /\ trace.after.state = RETURNING
           /\ trace.after.pheromoneStrength = ONE
           /\ trace.after.angle = trace.bounded.angle + PI
           /\ trace.after.excitedLevel = 2
           /\ trace.after.x = trace.bounded.x /\ trace.after.y = trace.bounded.y
(* C7 as stated: that, and the transition does not happen again while the
   agent stays within the food source it happened at. *)
PickUpOncePerStay ==
    /\ PickUpEffect
    /\ pickedUp => trace.visit.foods \cap foodsAround(trace.after, foodSources) = {}
(* C7, amended: that, and the transition does not happen again before the
   agent has reached a nest; a nest that lies within the food source lets it
   happen again without the agent leaving the food source. *)
PickUpOncePerTrip ==
    /\ PickUpEffect
    /\ pickedUp => ~trace.visit.carrying
(* an agent has picked up food a second time *)
PickedUpAgain ==
    pickedUp /\ trace.visit.pickups >= 1

(* C8: a RETURNING agent that ends its move within the radius of its nearest
   nest becomes FORAGING with full trail strength, its heading turned by PI and
   its excitation cleared; that nest's surge timer is set to SURGE_TICKS if the
   agent arrived at SOURCE level and is left alone if not; no other nest changes. *)
ArrivalEffect ==
    (updated /\ trace.bounded.state = RETURNING /\ atNest(trace.bounded, trace.nestsBefore))
        => LET b == trace.bounded
               c == closestNest(b, trace.nestsBefore)
           IN  /\ trace.after.state = FORAGING
               /\ trace.after.pheromoneStrength = ONE
               /\ trace.after.angle = b.angle + PI
               /\ trace.after.excitedLevel = 0
               /\ trace.nestsAfter[c].surgeTimer =
                      IF b.excitedLevel = 2 THEN SURGE_TICKS
                      ELSE trace.nestsBefore[c].surgeTimer
               /\ \A j \in 1 .. Len(trace.nestsBefore) :
                      j # c => trace.nestsAfter[j] = trace.nestsBefore[j]
(* an excited agent has come home to the nearer of two nests *)
ExcitedArrival ==
    /\ updated /\ trace.bounded.state = RETURNING /\ trace.bounded.excitedLevel = 2
    /\ Len(trace.nestsBefore) = 2 /\ atNest(trace.bounded, trace.nestsBefore)
    /\ closestNest(trace.bounded, trace.nestsBefore) = 2

(* C9 as stated: a deposit at a point with x outside [0, WIDTH) or y outside
   [0, HEIGHT) leaves both grids as they were. *)
DepositOutsideIsNoOp ==
    [][(hist'.ops = hist.ops + 1 /\ call'.op = "deposit" /\ outOfBounds(call'.x, call'.y))
         => (homeGrid' = homeGrid /\ foodGrid' = foodGrid)]_vars

(* C10: getLevel returns -1 exactly when the point is out of bounds and
   otherwise the cell of the effective channel at the truncated coordinates,
   a value within [0, 1]; it never changes a grid. *)
GetLevelContract ==
    [][(hist'.ops = hist.ops + 1 /\ call'.op = "getLevel")
         => /\ homeGrid' = homeGrid /\ foodGrid' = foodGrid
            /\ (call'.result = -ONE) <=> outOfBounds(call'.x, call'.y)
            /\ ~outOfBounds(call'.x, call'.y)
                 => /\ call'.result >= 0 /\ call'.result <= ONE
                    /\ call'.result =
                         (IF params.singlePheromoneMode \/ call'.type = HOME
                          THEN homeGrid ELSE foodGrid)[cellIndex(call'.x, call'.y)]]_vars
(* getLevel has been asked about a point off a canvas that holds pheromone *)
LevelRefused ==
    /\ call.op = "getLevel" /\ call.result = -ONE
    /\ \E i \in 0 .. Cells - 1 : homeGrid[i] > 0

(* C11: in single-channel mode a deposit to either channel lands in the home
   grid, leaves the food grid alone, and is read back at that cell under
   either channel; in normal mode a deposit to one channel leaves every cell
   of the other channel unchanged. *)
ChannelIsolation ==
    [][(call'.op = "deposit" /\ hist'.ops = hist.ops + 1) =>
         LET c == call'
             single == params.singlePheromoneMode
         IN  IF single
             THEN /\ foodGrid' = foodGrid
                  /\ ~outOfBounds(c.x, c.y) =>
                        LET fresh == Min(ONE, homeGrid[cellIndex(c.x, c.y)] + c.amount)
                        IN  /\ getLevel(homeGrid', foodGrid', single, c.x, c.y, HOME) = fresh
                            /\ getLevel(homeGrid', foodGrid', single, c.x, c.y, FOOD) = fresh
             ELSE /\ c.type = HOME => foodGrid' = foodGrid
                  /\ c.type = FOOD => homeGrid' = homeGrid]_vars

FoodDepositReadAsHome ==
    /\ params.singlePheromoneMode
    /\ call.op = "deposit" /\ call.type = FOOD /\ call.amount > 0
    /\ ~outOfBounds(call.x, call.y)
    /\ getLevel(homeGrid, foodGrid, TRUE, call.x, call.y, HOME) > 0

(* C12: after N calls of evaporate(r) in a row a cell holds its level before
   the first of them times r^N as long as that is at least 0.001, and exactly
   0 from the first call at which the product falls below 0.001; just after
   an evaporate no cell lies strictly between 0 and 0.001.  The rates of the
   harness are 1/d, so the product is v / d^N. *)
RECURSIVE power(_, _)
power(d, n) == IF n = 0 THEN 1 ELSE Min(2 * ONE, d * power(d, n - 1))
decayed(v, rate, n) ==
    LET dn == power(ONE \div rate, n)
    IN  IF v < SNAP * dn THEN 0 ELSE Round(v, dn)
DecayLaw ==
    call.op = "evaporate" =>
        \A i \in 0 .. Cells - 1 :
            /\ homeGrid[i] = decayed(call.base.home[i], call.amount, call.run)
            /\ foodGrid[i] = decayed(call.base.food[i], call.amount, call.run)
            /\ ~(0 < homeGrid[i] /\ homeGrid[i] < SNAP)
            /\ ~(0 < foodGrid[i] /\ foodGrid[i] < SNAP)
(* a full cell was kept at exactly 0.001 by the first call and cleared by the second *)
SnappedOnSecondCall ==
    /\ call.op = "evaporate" /\ call.run = 2
    /\ \E i \in 0 .. Cells - 1 : call.base.home[i] = ONE /\ homeGrid[i] = 0

(* C13: every tick runs, in this order, the surge-timer decrement, the spawn
   admission, exactly one evaporation, the rebuild of the bucket map, and then
   exactly one update of every agent of the list, the agents admitted in this
   tick included; so no update (and no deposit of an agent) comes before the
   tick's evaporation or before the rebuild. *)
TickOrder ==
    LET s == hist.steps
        expected(k) == IF k = 1 THEN "timers" ELSE IF k = 2 THEN "admit"
                       ELSE IF k = 3 THEN "evaporate" ELSE IF k = 4 THEN "index"
                       ELSE "update"
    IN  /\ \A k \in 1 .. Len(s) :
              /\ s[k].op = expected(k)
              /\ k > 4 => s[k].n = k - 4 /\ s[k].n <= s[2].n
        /\ pc = "idle" => s = <<>> \/ Len(s) = 4 + s[2].n
        /\ pc = "evaporate" => Len(s) = 2 /\ s[2].n = Len(agents)
        /\ pc = "update" => Len(s) = 3 + cursor /\ s[2].n = Len(agents)
(* a tick has ended that admitted an agent next to an older one and updated both *)
NewcomerUpdated ==
    /\ pc = "idle" /\ Len(hist.steps) = 6
    /\ hist.steps[1].n = 1 /\ hist.steps[2].n = 2

(* C14: the list handed to an agent's update holds exactly the agents whose
   position when the map was built fell in the agent's bucket, the agent
   itself among them; the key the agent is looked up under is the key it was
   bucketed under; and two distinct buckets of the arena have distinct keys. *)
ArenaBuckets ==
    {<<cx, cy>> : cx \in 0 .. (XMAX - 1) \div BUCKET, cy \in 0 .. (YMAX - 1) \div BUCKET}
NeighboursAreBucketMates ==
    /\ (pc = "update" /\ cursor > 1) =>
          LET me == trace.me
              near == trace.nearby
              listed == {near[k] : k \in 1 .. Len(near)}
          IN  /\ listed = {i \in 1 .. Len(agents) : hist.indexed[i] = hist.indexed[me]}
              /\ Cardinality(listed) = Len(near)
              /\ me \in listed
              /\ bucketOf(trace.before) = hist.indexed[me]
              /\ bucketKey(trace.before) \in DOMAIN spatialMap
              /\ spatialMap[bucketKey(trace.before)] = near
    /\ \A b, c \in ArenaBuckets :
          bucketKey([x |-> b[1] * BUCKET, y |-> b[2] * BUCKET])
            = bucketKey([x |-> c[1] * BUCKET, y |-> c[2] * BUCKET]) => b = c
(* the second of two agents was updated with a list that leaves out the first,
   which was in another row of the same column of buckets when the map was built *)
NeighbourLeftOut ==
    /\ pc = "update" /\ cursor = 3 /\ Len(trace.nearby) = 1
    /\ hist.indexed[1][1] = hist.indexed[2][1]
    /\ hist.indexed[1][2] # hist.indexed[2][2]

(* C15: Reset, Generate Maze and Clear Maze each leave every cell of both grids
   at 0, the population empty, the spawn accumulator at 0, and nestCount nests
   and foodCount foods with surge timer 0, placed against the obstacles the
   command has installed: a maze, none, or the ones there were. *)
Commands == {"maze", "clear", "reset"}
(* a list of n fresh sites of radius r: each at a point the placement draws
   from, at one clear of the obstacles unless the attempts ran out, and the
   first nest at the centre whenever the centre is clear *)
placedAgainst(sites, obs, n, r, centerFirst) ==
    /\ Len(sites) = n
    /\ \A i \in 1 .. Len(sites) :
          /\ sites[i].r = r /\ sites[i].surgeTimer = 0
          /\ [x |-> sites[i].x, y |-> sites[i].y] \in
                (IF centerFirst /\ i = 1 THEN {Center} ELSE {}) \cup SiteCands
          /\ isOverlapping(obs, sites[i].x, sites[i].y, r) =>
                \E c \in SiteCands : isOverlapping(obs, c.x, c.y, r)
    /\ (centerFirst /\ n > 0 /\ ~isOverlapping(obs, Center.x, Center.y, r)) =>
          sites[1].x = Center.x /\ sites[1].y = Center.y
CommandsStartAfresh ==
    [][(hist'.ui = hist.ui + 1 /\ hist'.cmd \in Commands) =>
         /\ homeGrid' = ZeroGrid /\ foodGrid' = ZeroGrid
         /\ agents' = <<>>
         /\ spawnAccumulator' = 0
         /\ obstacles' \in (CASE hist'.cmd = "maze" -> initMaze
                               [] hist'.cmd = "clear" -> {<<>>}
                               [] hist'.cmd = "reset" -> {obstacles})
         /\ placedAgainst(nests', obstacles', params.nestCount, NEST_R, TRUE)
         /\ placedAgainst(foodSources', obstacles', params.foodCount, FOOD_R, FALSE)]_vars
(* a maze was generated over a running colony: pheromone on the canvas, a
   fraction in the accumulator and agents out, all gone now *)
MazeOverRunningColony ==
    /\ hist.cmd = "maze" /\ hist.frames >= 2
    /\ Len(obstacles) > 0 /\ agents = <<>> /\ homeGrid = ZeroGrid
    /\ hist.steps # <<>> /\ hist.steps[2].n > 0

(* C16: no handler takes effect in the middle of a tick: a handler starts and
   ends between two frames, and from the admission of a tick to its end the
   parameters, the food and obstacle lists, the nests' places and the length
   of the agent list stay as they are. *)
siteOf(n) == [x |-> n.x, y |-> n.y, r |-> n.r]
NoTornTick ==
    [][/\ hist'.ui # hist.ui => pc = "idle" /\ pc' = "idle"
       /\ pc # "idle" =>
             /\ hist'.ui = hist.ui
             /\ params' = params
             /\ foodSources' = foodSources
             /\ obstacles' = obstacles
             /\ Len(agents') = Len(agents)
             /\ Len(nests') = Len(nests)
             /\ \A i \in 1 .. Len(nests) : siteOf(nests'[i]) = siteOf(nests[i])]_vars
(* a tick is between its two agents, a handler having run after an earlier tick *)
TickAfterHandler ==
    /\ pc = "update" /\ cursor = 2 /\ Len(agents) = 2
    /\ hist.ui = 1 /\ hist.frames >= 2

(* C17: the trail strength of every agent is within [0,1]; it is 1.0 at spawn
   and after an update in which the agent changes state, is FORAGING within
   the radius of its nearest nest, or is RETURNING within the radius of a
   food source; after any other update, with the gradient enabled, it is
   max(0, previous - 0.005). *)
StrengthLaw ==
    /\ \A i \in 1 .. Len(agents) :
          agents[i].pheromoneStrength >= 0 /\ agents[i].pheromoneStrength <= ONE
    /\ pc = "evaporate" =>
          \A i \in hist.steps[1].n + 1 .. Len(agents) : agents[i].pheromoneStrength = ONE
    /\ updated =>
          LET b == trace.bounded
              a == trace.after
              atGoal == \/ a.state # b.state
                        \/ a.state = FORAGING /\ atNest(a, trace.nestsBefore)
                        \/ a.state = RETURNING /\ onFoodAt(a, foodSources)
          IN  IF atGoal THEN a.pheromoneStrength = ONE
              ELSE params.usePheromoneGradient =>
                     a.pheromoneStrength = Max(0, b.pheromoneStrength - STRENGTH_STEP)
(* an agent has walked two steps in a row away from every goal *)
StrengthDecayedTwice ==
    /\ updated /\ trace.after.pheromoneStrength = ONE - 2 * STRENGTH_STEP
    /\ trace.after.state = trace.bounded.state

(* C18: with sortie regulation on, a spawn slot below the ceiling whose nest
   has surgeTimer > 0 always admits an agent, and one whose nest has
   surgeTimer = 0 admits an agent only when the draw is not above 0.01; with
   sortie regulation off every slot below the ceiling admits an agent.  The
   agents a tick adds are, in order, one at the nest of every admitting slot. *)
admits(slot) ==
    IF params.enableSortieRegulation
    THEN slot.surgeTimer > 0 \/ ~slot.above
    ELSE TRUE
RECURSIVE admitted(_)
admitted(slots) ==
    IF slots = <<>> THEN <<>>
    ELSE (IF admits(Head(slots)) THEN <<Head(slots).nest>> ELSE <<>>) \o admitted(Tail(slots))
SortieAdmission ==
    pc = "evaporate" =>
        LET was == hist.steps[1].n
            from == admitted(hist.slots)
        IN  /\ Len(agents) = was + Len(from)
            /\ \A k \in 1 .. Len(from) :
                  /\ agents[was + k].x = nests[from[k]].x
                  /\ agents[was + k].y = nests[from[k]].y
            /\ \A k \in 1 .. Len(hist.slots) :
                  /\ hist.slots[k].surgeTimer = nests[hist.slots[k].nest].surgeTimer
                  /\ was + Len(admitted(SubSeq(hist.slots, 1, k - 1))) < params.agentCount
(* under regulation a slot drew a nest in surge and let an agent out *)
SurgeAdmitted ==
    /\ pc = "evaporate" /\ params.enableSortieRegulation
    /\ \E k \in 1 .. Len(hist.slots) : hist.slots[k].surgeTimer > 0

(* C19: every nest's surge timer is a whole number from 0 to 600; as long as
   the nests are not placed anew it changes only at the start of a tick, going
   down by exactly 1 if it is above 0, and in the update of a RETURNING agent
   at SOURCE level that ends within that nest, its nearest, which sets it to
   600; it never goes below 0. *)
SurgeTimerLaw ==
    [][hist'.ui = hist.ui =>
         /\ Len(nests') = Len(nests)
         /\ \A i \in 1 .. Len(nests) :
               LET t == nests[i].surgeTimer
                   t2 == nests'[i].surgeTimer
               IN  /\ t \in 0 .. SURGE_TICKS /\ t2 \in 0 .. SURGE_TICKS
                   /\ IF pc = "idle" /\ pc' = "evaporate"
                      THEN t2 = IF t > 0 THEN t - 1 ELSE 0
                      ELSE \/ t2 = t
                           \/ /\ pc = "update" /\ cursor' = cursor + 1
                              /\ t2 = SURGE_TICKS
                              /\ trace'.bounded.state = RETURNING
                              /\ trace'.bounded.excitedLevel = 2
                              /\ atNest(trace'.bounded, nests)
                              /\ closestNest(trace'.bounded, nests) = i]_vars
(* a timer set by an arrival has gone down by one at the start of the next
   tick, next to a timer that stays at 0 *)
SurgeCountingDown ==
    /\ \E i \in 1 .. Len(nests) : nests[i].surgeTimer = SURGE_TICKS - 1
    /\ \E i \in 1 .. Len(nests) : nests[i].surgeTimer = 0

(* C20: in an update that finds give-up enabled and the agent FORAGING and not
   excited, the search counter becomes 0 and the give-up flag is cleared if
   either channel at the agent's cell is above 0.05, and otherwise the counter
   goes up by 1 and the flag is set once the counter is above 900; in every
   other update counter and flag are as before, also when the agent picks up
   food or arrives at a nest in it. *)
GiveUpLaw ==
    [][(pc = "update" /\ cursor' = cursor + 1) =>
         LET b == trace'.before
             s == trace'.sensed
             a == trace'.after
             level(type) == getLevel(homeGrid, foodGrid, params.singlePheromoneMode,
                                     s.x, s.y, type)
         IN  IF params.enableGiveUp /\ s.state = FORAGING /\ s.excitedLevel = 0
             THEN IF level(HOME) > TRAIL_MIN \/ level(FOOD) > TRAIL_MIN
                  THEN a.searchTime = 0 /\ ~a.givingUp
                  ELSE /\ a.searchTime = b.searchTime + 1
                       /\ a.givingUp = (b.givingUp \/ a.searchTime > GIVE_UP_TICKS)
             ELSE a.searchTime = b.searchTime /\ a.givingUp = b.givingUp]_vars
(* the 901st update off the trail has raised the flag *)
GaveUp ==
    /\ updated /\ params.enableGiveUp
    /\ trace.before.searchTime = GIVE_UP_TICKS /\ ~trace.before.givingUp
    /\ trace.after.searchTime = GIVE_UP_TICKS + 1 /\ trace.after.givingUp

(* C21: the propagation step raises an agent from NONE to CARRIER only if the
   list it was handed holds another agent that is at SOURCE level; a CARRIER
   in the list does not do it; the step never makes an agent SOURCE, and it
   leaves alone an agent that the decay step left CARRIER or SOURCE. *)
sourceNearby ==
    \E k \in 1 .. Len(trace.nearby) :
        trace.nearby[k] # trace.me /\ agents[trace.nearby[k]].excitedLevel = 2
PropagationLaw ==
    (pc = "update" /\ cursor > 1) =>
        LET c == trace.calmed
            e == trace.excited
        IN  /\ e = c \/ e = [c EXCEPT !.excitedLevel = 1]
            /\ c.excitedLevel > 0 => e = c
            /\ e # c => sourceNearby /\ params.propagationChance > 0
(* an agent at NONE next to one at SOURCE has become a CARRIER *)
Recruited ==
    /\ pc = "update" /\ cursor > 1
    /\ trace.calmed.excitedLevel = 0 /\ trace.excited.excitedLevel = 1

(* C22: an agent that has not given up turns by what its three readings of
   the target channel say, FOOD while FORAGING and HOME while RETURNING: not
   at all if the centre is strictly above both flanks; by a random amount
   within the turn rate either way if it is strictly below both; otherwise by
   exactly the turn rate towards the strictly higher flank, and not at all if
   the flanks are equal.  The turn rate is turnSpeed, times
   excitedTurnSpeedMult while the agent is excited. *)
TurnLaw ==
    [][(pc = "update" /\ cursor' = cursor + 1 /\ ~trace'.excited.givingUp) =>
         LET a == trace'.excited
             target == IF a.state = FORAGING THEN FOOD ELSE HOME
             reading(ang) ==
                 LET q == sensorPos(a, ang, params)
                 IN  getLevel(homeGrid, foodGrid, params.singlePheromoneMode, q.x, q.y, target)
             left == reading(a.angle - params.sensorAngle)
             center == reading(a.angle)
             right == reading(a.angle + params.sensorAngle)
             rate == IF a.excitedLevel > 0
                     THEN Round(params.turnSpeed * params.excitedTurnSpeedMult, ONE)
                     ELSE params.turnSpeed
             by == trace'.turned.angle - a.angle
         IN  /\ trace'.turned = [a EXCEPT !.angle = a.angle + by]
             /\ IF center > left /\ center > right THEN by = 0
                ELSE IF center < left /\ center < right THEN by >= -rate /\ by <= rate
                ELSE IF left > right THEN by = -rate
                ELSE IF right > left THEN by = rate
                ELSE by = 0]_vars
(* an excited agent has turned towards its left flank at the raised rate *)
ExcitedLeftTurn ==
    /\ updated /\ ~trace.excited.givingUp /\ trace.excited.excitedLevel > 0
    /\ trace.turned.angle = trace.excited.angle - 3 * params.turnSpeed

(* C23: an update makes one deposit: at the cell of the agent's position after
   the move and the boundary handling, which is on the canvas, on the channel
   of the state the agent entered the update with (HOME if FORAGING, FOOD if
   RETURNING; the home grid in single mode), of the trail strength the agent
   entered the update with; no other cell of either grid changes. *)
OneDepositPerUpdate ==
    [][(pc = "update" /\ cursor' = cursor + 1) =>
         LET b == trace'.bounded
             idx == cellIndex(b.x, b.y)
             amount == trace'.before.pheromoneStrength
             onHome == params.singlePheromoneMode \/ trace'.before.state = FORAGING
             laid(g) == [g EXCEPT ![idx] = Min(ONE, g[idx] + amount)]
         IN  /\ ~outOfBounds(b.x, b.y)
             /\ homeGrid' = IF onHome THEN laid(homeGrid) ELSE homeGrid
             /\ foodGrid' = IF onHome THEN foodGrid ELSE laid(foodGrid)]_vars
(* a RETURNING agent some steps from the food has laid its weakened strength
   on a fresh cell of the food grid *)
WeakFoodTrail ==
    /\ updated /\ ~params.singlePheromoneMode
    /\ trace.before.state = RETURNING /\ trace.before.pheromoneStrength < ONE
    /\ foodGrid[cellIndex(trace.bounded.x, trace.bounded.y)] = trace.before.pheromoneStrength

(* C24: while usePheromoneGradient is off every agent of the population has
   trail strength 1.0, and every update of that mode enters, and so deposits,
   with 1.0. *)
FlatStrength ==
    ~params.usePheromoneGradient =>
        /\ \A i \in 1 .. Len(agents) : agents[i].pheromoneStrength = ONE
        /\ (pc = "update" /\ cursor > 1) =>
               /\ trace.before.pheromoneStrength = ONE
               /\ trace.after.pheromoneStrength = ONE
(* with the gradient off an agent has taken a step outside every nest and
   every food source, where the gradient would have weakened it *)
PinnedAwayFromGoals ==
    /\ ~params.usePheromoneGradient /\ pc = "update" /\ cursor > 1
    /\ trace.after.state = trace.before.state
    /\ ~atNest(trace.after, nests) /\ ~onFoodAt(trace.after, foodSources)
    /\ trace.after.pheromoneStrength = ONE

(* C25: a placement call ends with exactly as many sites as were asked for,
   each after at most 100 candidates; a site that overlaps an obstacle took
   all 100, a site that took fewer overlaps none, and the first nest took one
   candidate and sits at the centre of the arena when the centre overlaps no
   obstacle. *)
PlacementLaw ==
    call.op \in {"initNests", "initFoods"} =>
        LET ofNests == call.op = "initNests"
            sites == IF ofNests THEN nests ELSE foodSources
            r == IF ofNests THEN NEST_R ELSE FOOD_R
            wanted == IF ofNests THEN params.nestCount ELSE params.foodCount
        IN  /\ Len(sites) = wanted /\ Len(call.draws) = wanted
            /\ \A i \in 1 .. Len(sites) :
                  /\ sites[i] = Site(call.draws[i].x, call.draws[i].y, r)
                  /\ call.draws[i].attempts \in 1 .. MAX_ATTEMPTS
                  /\ isOverlapping(obstacles, sites[i].x, sites[i].y, r)
                        => call.draws[i].attempts = MAX_ATTEMPTS
            /\ (ofNests /\ ~isOverlapping(obstacles, Center.x, Center.y, NEST_R))
                  => /\ nests[1].x = Center.x /\ nests[1].y = Center.y
                     /\ call.draws[1].attempts = 1
(* in a maze two food sources were placed, one on a wall after 100
   candidates and one clear of the walls after fewer *)
PlacedOnWallAfterHundred ==
    /\ call.op = "initFoods" /\ obstacles # <<>>
    /\ \E i, j \in 1 .. Len(foodSources) :
          /\ isOverlapping(obstacles, foodSources[i].x, foodSources[i].y, FOOD_R)
          /\ call.draws[i].attempts = MAX_ATTEMPTS
          /\ ~isOverlapping(obstacles, foodSources[j].x, foodSources[j].y, FOOD_R)
          /\ call.draws[j].attempts \in 2 .. MAX_ATTEMPTS - 1

(* C26: an agent at SOURCE level is RETURNING: no FORAGING agent is at SOURCE
   level, in the population or at any point of an update. *)
SourcesAreReturning ==
    /\ \A i \in 1 .. Len(agents) :
          agents[i].excitedLevel = 2 => agents[i].state = RETURNING
    /\ (pc = "update" /\ cursor > 1) =>
          \A a \in {trace.before, trace.calmed, trace.excited, trace.bounded, trace.after} :
              a.excitedLevel = 2 => a.state = RETURNING
(* an agent that carried food at SOURCE level has arrived at a nest and
   forages again, calm *)
SourceCameHome ==
    /\ pc = "update" /\ cursor > 1
    /\ trace.bounded.state = RETURNING /\ trace.bounded.excitedLevel = 2
    /\ trace.after.state = FORAGING /\ trace.after.excitedLevel = 0

(* C27 as stated: an agent becomes CARRIER in a tick only if another agent of
   its bucket was at SOURCE level when the index of that tick was built. *)
RecruitedBySourceAtRebuild ==
    (pc = "update" /\ cursor > 1 /\ trace.calmed.excitedLevel = 0
                   /\ trace.excited.excitedLevel = 1)
        => \E k \in 1 .. Len(trace.nearby) :
              trace.nearby[k] # trace.me /\ hist.levels[trace.nearby[k]] = 2

(* C28: between two ticks the spawn accumulator is at least 0 and below 1; a
   tick that starts with the population at the ceiling leaves it as it is;
   every step that removes agents, which only a population reset does, and
   every handler that leaves the population empty sets it to 0. *)
AccumulatorLaw ==
    /\ [](pc = "idle" => (spawnAccumulator >= 0 /\ spawnAccumulator < ONE))
    /\ [][/\ (pc = "idle" /\ pc' = "evaporate" /\ Len(agents) >= params.agentCount)
               => (spawnAccumulator' = spawnAccumulator)
          /\ (Len(agents') < Len(agents) \/ (hist'.ui > hist.ui /\ hist'.ticks < hist.ticks))
               => (agents' = <<>> /\ spawnAccumulator' = 0)]_vars
(* a tick that started at the ceiling has ended with half an agent carried *)
CarriedAtCeiling ==
    /\ pc = "idle" /\ hist.frames > 0
    /\ hist.steps[1].n >= params.agentCount
    /\ spawnAccumulator = ONE \div 2

(* C29: in the tick that starts d ticks after the tick in which a nest's surge
   timer was last set, d >= 1, the timer the admission loop reads is
   max(0, 600 - d): it is above 0 in the 599 ticks d = 1 .. 599 and 0 from
   d = 600 on, in the nests list and in every slot drawn at that nest. *)
SurgeWindow ==
    [][(pc = "idle" /\ pc' = "evaporate") =>
         \A i \in 1 .. Len(nests') :
             (i <= Len(hist'.armed) /\ hist'.armed[i] >= 1) =>
                 LET d == hist'.armed[i]
                     seen == {nests'[i].surgeTimer}
                               \cup {hist'.slots[k].surgeTimer
                                      : k \in {j \in 1 .. Len(hist'.slots)
                                                 : hist'.slots[j].nest = i}}
                 IN  /\ seen = {Max(0, SURGE_TICKS - d)}
                     /\ \A t \in seen : t > 0 <=> d <= SURGE_TICKS - 1]_vars
(* the 600th tick after the arming has drawn a slot at the nest and found the
   timer at 0 *)
SurgeOver ==
    /\ pc = "evaporate"
    /\ \E k \in 1 .. Len(hist.slots) :
          /\ hist.slots[k].surgeTimer = 0
          /\ hist.slots[k].nest <= Len(hist.armed)
          /\ hist.armed[hist.slots[k].nest] = SURGE_TICKS

(* C30: with a spawn rate above 0, a nest, sortie regulation off and no
   handler running, the population reaches agentCount and stays there; from
   step to step it never shrinks, and a tick adds at most ceil(spawnRate)
   agents and none beyond the ceiling. *)
PopulationFills ==
    /\ <>[](Len(agents) = params.agentCount)
    /\ [][/\ Len(agents') >= Len(agents)
          /\ Len(agents') - Len(agents) <= (params.spawnRate + ONE - 1) \div ONE
          /\ Len(agents') <= params.agentCount
          /\ Len(agents') > Len(agents) => (pc = "idle" /\ pc' = "evaporate")]_vars
(* a ceiling of two agents was reached one agent at a time, and a further
   tick has started and ended at the ceiling *)
StayedAtCeiling ==
    /\ pc = "idle" /\ hist.frames = MaxTicks
    /\ params.spawnRate = ONE /\ params.agentCount = MaxAgents
    /\ hist.steps[1].n = params.agentCount /\ Len(agents) = params.agentCount

===========================================================================
